---- MODULE Spec2Model ----
(***************************************************************************)
(* Kit-to-plate well mapping engine of the HTE backend.                    *)
(*                                                                         *)
(* Python strings are sequences of one-character strings ("A1" is          *)
(* <<"A","1">>), so that indexing, slicing, split, int(), ord(), chr() and *)
(* f-string formatting are computed the way the code computes them.        *)
(***************************************************************************)
EXTENDS Integers, Sequences, FiniteSets, TLC

VARIABLES
    op,                 \* which operation the current behaviour exercises, and whether it ran
    position,           \* calculate_well_mappings: the placement directive
    kit_wells,          \* kit_size['wells']
    destination_plate,  \* destination plate tag
    mappings,           \* result of calculate_well_mappings: [raised, mappings]
    content_wells,      \* analyze_kit: keys of design_data
    kit_size,           \* analyze_kit: the kit size descriptor (or the error response)
    design,             \* apply_kit_design_to_procedure: list of (kit well, materials)
    current_procedure,  \* apply_kit_design_to_procedure: the input procedure list
    new_procedure_data, \* apply_kit_design_to_procedure: the returned list (or raised)
    current_experiment, \* state/experiment.py: _current_experiment, its sections as references
    heap,               \* the list and well-record objects the references point to
    req,                \* routes/kit.py apply_kit: per-request locals and position in the handler
    returned,           \* the calls of calculate_well_mappings so far: arguments and result
    attempts,           \* security/rate_limiting.py: upload_attempts and api_attempts
    clock,              \* time.time()
    config              \* current_app.config: the rate limits

vars == <<op, position, kit_wells, destination_plate, mappings, content_wells, kit_size,
          design, current_procedure, new_procedure_data, current_experiment, heap, req,
          returned, attempts, clock, config>>

None == "None"

(***************************************************************************)
(* Characters and strings                                                  *)
(***************************************************************************)

\* Printable ASCII, code points 32..126, in order (code 96 is written "<grave>").
AsciiChars ==
    << " ", "!", "\"", "#", "$", "%", "&", "'", "(", ")", "*", "+", ",", "-", ".", "/",
       "0", "1", "2", "3", "4", "5", "6", "7", "8", "9", ":", ";", "<", "=", ">", "?",
       "@", "A", "B", "C", "D", "E", "F", "G", "H", "I", "J", "K", "L", "M", "N", "O",
       "P", "Q", "R", "S", "T", "U", "V", "W", "X", "Y", "Z", "[", "\\", "]", "^", "_",
       "<grave>", "a", "b", "c", "d", "e", "f", "g", "h", "i", "j", "k", "l", "m", "n", "o",
       "p", "q", "r", "s", "t", "u", "v", "w", "x", "y", "z", "{", "|", "}", "~" >>

\* ord(c) and chr(n)
Ord(c) == 31 + (CHOOSE i \in 1..Len(AsciiChars) : AsciiChars[i] = c)

Chr(n) == AsciiChars[n - 31]

Digits == {"0", "1", "2", "3", "4", "5", "6", "7", "8", "9"}

DigitVal(c) == Ord(c) - Ord("0")

IsDigits(s) == Len(s) > 0 /\ \A i \in 1..Len(s) : s[i] \in Digits

RECURSIVE DigitsVal(_)
DigitsVal(s) ==
    IF Len(s) = 0 THEN 0
    ELSE 10 * DigitsVal(SubSeq(s, 1, Len(s) - 1)) + DigitVal(s[Len(s)])

\* int(s): [ok |-> FALSE] stands for ValueError
PyInt(s) ==
    IF IsDigits(s) THEN [ok |-> TRUE, val |-> DigitsVal(s)]
    ELSE IF Len(s) > 1 /\ s[1] \in {"+", "-"} /\ IsDigits(Tail(s))
         THEN [ok |-> TRUE, val |-> IF s[1] = "-" THEN 0 - DigitsVal(Tail(s))
                                    ELSE DigitsVal(Tail(s))]
         ELSE [ok |-> FALSE, val |-> 0]

\* str(n) for an integer n, as f"{n}" formats it
RECURSIVE NatStr(_)
NatStr(n) ==
    IF n < 10 THEN <<Chr(Ord("0") + n)>>
    ELSE NatStr(n \div 10) \o <<Chr(Ord("0") + (n % 10))>>

IntStr(n) == IF n < 0 THEN <<"-">> \o NatStr(0 - n) ELSE NatStr(n)

\* f"{row}{col}" where row is a string and col an integer
WellStr(row, col) == row \o IntStr(col)

\* s.startswith(prefix)
StartsWith(s, prefix) ==
    Len(s) >= Len(prefix) /\ SubSeq(s, 1, Len(prefix)) = prefix

\* s.split("-")
RECURSIVE Split(_)
Split(s) ==
    IF \A i \in 1..Len(s) : s[i] # "-" THEN <<s>>
    ELSE LET k == CHOOSE i \in 1..Len(s) :
                      s[i] = "-" /\ \A j \in 1..(i - 1) : s[j] # "-"
         IN  <<SubSeq(s, 1, k - 1)>> \o Split(SubSeq(s, k + 1, Len(s)))

\* lexicographic order of Python strings (sorted(), min(), max())
RECURSIVE StrLess(_, _)
StrLess(s, t) ==
    IF Len(t) = 0 THEN FALSE
    ELSE IF Len(s) = 0 THEN TRUE
    ELSE IF s[1] # t[1] THEN Ord(s[1]) < Ord(t[1])
    ELSE StrLess(Tail(s), Tail(t))

Range(f) == {f[i] : i \in DOMAIN f}

RECURSIVE Concat(_)
Concat(ss) == IF Len(ss) = 0 THEN <<>> ELSE Head(ss) \o Concat(Tail(ss))

(***************************************************************************)
(* String literals of the resolver                                         *)
(***************************************************************************)

TopLeft == <<"t", "o", "p", "-", "l", "e", "f", "t">>

TopRight == <<"t", "o", "p", "-", "r", "i", "g", "h", "t">>

BottomLeft == <<"b", "o", "t", "t", "o", "m", "-", "l", "e", "f", "t">>

BottomRight == <<"b", "o", "t", "t", "o", "m", "-", "r", "i", "g", "h", "t">>

AllQuadrants == <<"a", "l", "l", "-", "q", "u", "a", "d", "r", "a", "n", "t", "s">>

TopQuadrants == <<"t", "o", "p", "-", "q", "u", "a", "d", "r", "a", "n", "t", "s">>

BottomQuadrants == <<"b", "o", "t", "t", "o", "m", "-", "q", "u", "a", "d", "r", "a", "n", "t", "s">>

LeftQuadrants == <<"l", "e", "f", "t", "-", "q", "u", "a", "d", "r", "a", "n", "t", "s">>

RightQuadrants == <<"r", "i", "g", "h", "t", "-", "q", "u", "a", "d", "r", "a", "n", "t", "s">>

RowPrefix == <<"r", "o", "w", "-">>

ColPrefix == <<"c", "o", "l", "-">>

RowsPrefix == <<"r", "o", "w", "s", "-">>

ColsPrefix == <<"c", "o", "l", "s", "-">>

(***************************************************************************)
(* calculate_well_mappings: legacy string directives                       *)
(*                                                                         *)
(* A result is [raised, mappings]: raised = TRUE stands for the exception  *)
(* the call ends with; otherwise mappings is the returned dict, a function *)
(* from kit wells to lists of destination wells.                           *)
(***************************************************************************)

EmptyMap == [w \in {} |-> <<>>]

Raised == [raised |-> TRUE, mappings |-> EmptyMap]

Returned(m) == [raised |-> FALSE, mappings |-> m]

\* The first loop: wells of length >= 2 contribute their row letter and int(well[1:]).
ParsedWells(wells) == {w \in Range(wells) : Len(w) >= 2}

ParseRaises(wells) == \E w \in ParsedWells(wells) : ~PyInt(Tail(w)).ok

KitRows(wells) == {w[1] : w \in ParsedWells(wells)}

KitCols(wells) == {PyInt(Tail(w)).val : w \in ParsedWells(wells)}

\* sorted(list(kit_rows)).index(row_letter), sorted(list(kit_cols)).index(col_number)
RowIndex(kit_rows, row_letter) == Cardinality({r \in kit_rows : Ord(r) < Ord(row_letter)})

ColIndex(kit_cols, col_number) == Cardinality({c \in kit_cols : c < col_number})

\* well[0] raises IndexError on "", list.index raises ValueError on an absent row
RowOffsetRaises(well, wells) == Len(well) = 0 \/ well[1] \notin KitRows(wells)

\* int(well[1:]) raises ValueError on a non-number; a parsed column is always in kit_cols
\* unless the well was too short for the first loop
ColOffsetRaises(well, wells) ==
    \/ ~PyInt(IF Len(well) = 0 THEN <<>> ELSE Tail(well)).ok
    \/ PyInt(Tail(well)).val \notin KitCols(wells)

\* Fault variant of row_offset: raw alphabetic distance from row A instead of the rank
\* among the kit's distinct rows.
row_offset_raw(well, wells) == Ord(well[1]) - Ord("A")

row_offset(well, wells) == RowIndex(KitRows(wells), well[1])

\* Fault variant of col_offset: raw distance from column 1 instead of the rank among
\* the kit's distinct columns.
col_offset_raw(well, wells) == PyInt(Tail(well)).val - 1

col_offset(well, wells) == ColIndex(KitCols(wells), PyInt(Tail(well)).val)

\* Fault variant of QuadrantAnchors: the replicating tags lose their last anchor.
QuadrantAnchors_short(pos) ==
    IF pos = TopLeft THEN << <<"A", 1>> >>
    ELSE IF pos = TopRight THEN << <<"A", 7>> >>
    ELSE IF pos = BottomLeft THEN << <<"E", 1>> >>
    ELSE IF pos = BottomRight THEN << <<"E", 7>> >>
    ELSE IF pos = AllQuadrants THEN << <<"A", 1>>, <<"A", 7>>, <<"E", 1>> >>
    ELSE IF pos = TopQuadrants THEN << <<"A", 1>> >>
    ELSE IF pos = BottomQuadrants THEN << <<"E", 1>> >>
    ELSE IF pos = LeftQuadrants THEN << <<"A", 1>> >>
    ELSE IF pos = RightQuadrants THEN << <<"A", 7>> >>
    ELSE << >>

\* The anchors (row letter, first column) each quadrant tag maps a kit onto.
QuadrantAnchors(pos) ==
    IF pos = TopLeft THEN << <<"A", 1>> >>
    ELSE IF pos = TopRight THEN << <<"A", 7>> >>
    ELSE IF pos = BottomLeft THEN << <<"E", 1>> >>
    ELSE IF pos = BottomRight THEN << <<"E", 7>> >>
    ELSE IF pos = AllQuadrants THEN << <<"A", 1>>, <<"A", 7>>, <<"E", 1>>, <<"E", 7>> >>
    ELSE IF pos = TopQuadrants THEN << <<"A", 1>>, <<"A", 7>> >>
    ELSE IF pos = BottomQuadrants THEN << <<"E", 1>>, <<"E", 7>> >>
    ELSE IF pos = LeftQuadrants THEN << <<"A", 1>>, <<"E", 1>> >>
    ELSE IF pos = RightQuadrants THEN << <<"A", 7>>, <<"E", 7>> >>
    ELSE << >>

\* f"{chr(ord(anchor_row) + row_offset)}{anchor_col + col_offset}" for each anchor
QuadrantTargets(well, wells, anchors) ==
    [i \in 1..Len(anchors) |->
        WellStr(<<Chr(Ord(anchors[i][1]) + row_offset(well, wells))>>,
                anchors[i][2] + col_offset(well, wells))]

\* The branches for top-left ... right-quadrants.
QuadrantBranch(pos, wells) ==
    IF \E w \in Range(wells) : RowOffsetRaises(w, wells) \/ ColOffsetRaises(w, wells)
    THEN Raised
    ELSE Returned([w \in Range(wells) |-> QuadrantTargets(w, wells, QuadrantAnchors(pos))])

\* position.startswith("row-"): the target row is taken from the tag as it is
RowBranch(pos, wells) ==
    LET target_row == Split(pos)[2]
    IN  IF \E w \in Range(wells) : ColOffsetRaises(w, wells)
        THEN Raised
        ELSE Returned([w \in Range(wells) |->
                          <<WellStr(target_row, 1 + col_offset(w, wells))>>])

\* position.startswith("col-")
ColBranch(pos, wells) ==
    LET target_col == PyInt(Split(pos)[2])
    IN  IF ~target_col.ok \/ \E w \in Range(wells) : RowOffsetRaises(w, wells)
        THEN Raised
        ELSE Returned([w \in Range(wells) |->
                          <<WellStr(<<Chr(Ord("A") + row_offset(w, wells))>>, target_col.val)>>])

\* position.startswith("rows-"): ord(start_row) raises TypeError unless it is one character
RowsBranch(pos, wells) ==
    LET parts == Split(pos)
    IN  IF Len(parts) < 3 THEN Returned(EmptyMap)
        ELSE IF Len(parts[2]) # 1 THEN Raised
        ELSE IF \E w \in Range(wells) : RowOffsetRaises(w, wells) \/ ColOffsetRaises(w, wells)
        THEN Raised
        ELSE LET start_row_idx == Ord(parts[2][1]) - Ord("A")
             IN  Returned([w \in Range(wells) |->
                     <<WellStr(<<Chr(Ord("A") + start_row_idx + row_offset(w, wells))>>,
                               1 + col_offset(w, wells))>>])

\* position.startswith("cols-")
ColsBranch(pos, wells) ==
    LET parts == Split(pos)
    IN  IF Len(parts) < 3 THEN Returned(EmptyMap)
        ELSE IF ~PyInt(parts[2]).ok THEN Raised
        ELSE IF \E w \in Range(wells) : RowOffsetRaises(w, wells) \/ ColOffsetRaises(w, wells)
        THEN Raised
        ELSE Returned([w \in Range(wells) |->
                 <<WellStr(<<Chr(Ord("A") + row_offset(w, wells))>>,
                           PyInt(parts[2]).val + col_offset(w, wells))>>])

\* The if/elif chain of calculate_well_mappings for a string directive.
calculate_legacy_well_mappings(pos, wells) ==
    IF ParseRaises(wells) THEN Raised
    ELSE IF pos \in {TopLeft, TopRight, BottomLeft, BottomRight, AllQuadrants}
    THEN QuadrantBranch(pos, wells)
    ELSE IF StartsWith(pos, RowPrefix) THEN RowBranch(pos, wells)
    ELSE IF StartsWith(pos, ColPrefix) THEN ColBranch(pos, wells)
    ELSE IF pos \in {TopQuadrants, BottomQuadrants, LeftQuadrants, RightQuadrants}
    THEN QuadrantBranch(pos, wells)
    ELSE IF StartsWith(pos, RowsPrefix) THEN RowsBranch(pos, wells)
    ELSE IF StartsWith(pos, ColsPrefix) THEN ColsBranch(pos, wells)
    ELSE Returned(EmptyMap)

(***************************************************************************)
(* calculate_flexible_well_mappings: structured directives                 *)
(***************************************************************************)

PairAB == <<"A", "B">>

PairCD == <<"C", "D">>

PairEF == <<"E", "F">>

PairGH == <<"G", "H">>

HalfUpper == <<"u", "p", "p", "e", "r">>

HalfLower == <<"l", "o", "w", "e", "r">>

\* Fault variant of plate_config: a tag that is no key of plate_configs gets the
\* 24-well geometry.
plate_config_default_24(plate) ==
    IF plate = "96" THEN [rows |-> 8, cols |-> 12]
    ELSE IF plate = "48" THEN [rows |-> 6, cols |-> 8]
    ELSE [rows |-> 4, cols |-> 6]

\* Fault variant of plate_config: the plate type stored in the experiment's context,
\* when there is one, takes the place of the argument.
plate_config_stored(plate) ==
    LET stored == current_experiment.context.plate_type
        tag == IF stored # "None" THEN stored ELSE plate
    IN  IF tag = "24" THEN [rows |-> 4, cols |-> 6]
        ELSE IF tag = "48" THEN [rows |-> 6, cols |-> 8]
        ELSE [rows |-> 8, cols |-> 12]

\* plate_configs.get(destination_plate, plate_configs['96'])
plate_config(plate) ==
    IF plate = "24" THEN [rows |-> 4, cols |-> 6]
    ELSE IF plate = "48" THEN [rows |-> 6, cols |-> 8]
    ELSE [rows |-> 8, cols |-> 12]

\* Fault variant of quadrant_offsets: the four anchors of the 96-well plate on every plate.
quadrant_offsets_96(plate) ==
    (TopLeft :> <<0, 0>>) @@ (TopRight :> <<0, 6>>) @@
    (BottomLeft :> <<4, 0>>) @@ (BottomRight :> <<4, 6>>)

\* quadrant_offsets: (row_offset, col_offset) by quadrant id
quadrant_offsets(plate) ==
    IF plate = "48"
    THEN (TopLeft :> <<0, 0>>) @@ (TopRight :> <<2, 0>>)
    ELSE (TopLeft :> <<0, 0>>) @@ (TopRight :> <<0, 6>>) @@
         (BottomLeft :> <<4, 0>>) @@ (BottomRight :> <<4, 6>>)

row_pair_offsets == (PairAB :> 0) @@ (PairCD :> 2) @@ (PairEF :> 4) @@ (PairGH :> 6)

half_offsets == (HalfUpper :> 0) @@ (HalfLower :> 4)

(* One pass of a strategy's loop over the kit wells, for one accepted position or  *)
(* block.  bad: the pass raises before it reaches a well (int() of the column in   *)
(* the id).  bad_row: it raises at the first well it handles (ord() of a start row *)
(* that is not one character).  A shifted axis starts at row_base / col_base and   *)
(* adds the well's raw distance from A / from 1; a copied axis keeps the well's.   *)
Pass(bad, bad_row, row_copied, row_base, col_copied, col_base) ==
    [bad |-> bad, bad_row |-> bad_row, row_copied |-> row_copied, row_base |-> row_base,
     col_copied |-> col_copied, col_base |-> col_base]

\* strategy == 'row_placement'
RowPlacementPasses(positions) ==
    LET accepted(position_id) == StartsWith(position_id, RowPrefix)
        ids == SelectSeq(positions, accepted)
    IN  [i \in 1..Len(ids) |->
            LET target_start_row == Split(ids[i])[2]
            IN  IF Len(target_start_row) # 1
                THEN Pass(FALSE, TRUE, FALSE, 0, TRUE, 0)
                ELSE Pass(FALSE, FALSE, FALSE, Ord(target_start_row[1]), TRUE, 0)]

\* strategy == 'col_placement'
ColPlacementPasses(positions) ==
    LET accepted(position_id) == StartsWith(position_id, ColPrefix)
        ids == SelectSeq(positions, accepted)
    IN  [i \in 1..Len(ids) |->
            LET target_start_col == PyInt(Split(ids[i])[2])
            IN  Pass(~target_start_col.ok, FALSE, TRUE, 0, FALSE, target_start_col.val)]

\* strategy == 'quadrant_placement'
QuadrantPlacementPasses(positions, plate) ==
    LET accepted(position_id) == position_id \in DOMAIN quadrant_offsets(plate)
        ids == SelectSeq(positions, accepted)
    IN  [i \in 1..Len(ids) |->
            LET off == quadrant_offsets(plate)[ids[i]]
            IN  Pass(FALSE, FALSE, FALSE, Ord("A") + off[1], FALSE, 1 + off[2])]

\* strategy == 'row_pair_placement'
RowPairPlacementPasses(positions) ==
    LET accepted(position_id) == position_id \in DOMAIN row_pair_offsets
        ids == SelectSeq(positions, accepted)
    IN  [i \in 1..Len(ids) |->
            Pass(FALSE, FALSE, FALSE, Ord("A") + row_pair_offsets[ids[i]], TRUE, 0)]

\* strategy == 'half_placement'
HalfPlacementPasses(positions) ==
    LET accepted(position_id) == position_id \in DOMAIN half_offsets
        ids == SelectSeq(positions, accepted)
    IN  [i \in 1..Len(ids) |->
            Pass(FALSE, FALSE, FALSE, Ord("A") + half_offsets[ids[i]], TRUE, 0)]

\* strategy == 'block_placement'
BlockPlacementPasses(blocks) ==
    [i \in 1..Len(blocks) |->
        IF Len(blocks[i].startRow) # 1
        THEN Pass(FALSE, TRUE, FALSE, 0, FALSE, blocks[i].startCol)
        ELSE Pass(FALSE, FALSE, FALSE, Ord(blocks[i].startRow[1]), FALSE, blocks[i].startCol)]

\* strategy == 'exact_placement': start_row = 'A', start_col = 1
ExactPlacementPasses == << Pass(FALSE, FALSE, FALSE, Ord("A"), FALSE, 1) >>

\* Fault variant of dest_row_ord: the row of the kit well is kept in every pass.
dest_row_ord_copied(well, pass) == Ord(well[1])

\* ord(dest_row) and dest_col of one well in one pass
dest_row_ord(well, pass) ==
    IF pass.row_copied THEN Ord(well[1])
    ELSE pass.row_base + (Ord(well[1]) - Ord("A"))

\* Fault variant of dest_col: the column is shifted from the pass's base in every pass.
dest_col_shifted(well, pass) == pass.col_base + (PyInt(Tail(well)).val - 1)

dest_col(well, pass) ==
    IF pass.col_copied THEN PyInt(Tail(well)).val
    ELSE pass.col_base + (PyInt(Tail(well)).val - 1)

\* Fault variant of InBounds: the column is not tested.
InBounds_rows_only(row_ord, col, plate) ==
    row_ord <= Ord("A") + plate_config(plate).rows - 1

\* if ord(dest_row) <= ord('A') + plate_config['rows'] - 1 and dest_col <= plate_config['cols']
InBounds(row_ord, col, plate) ==
    /\ row_ord <= Ord("A") + plate_config(plate).rows - 1
    /\ col <= plate_config(plate).cols

\* what one pass appends to mappings[well]: one destination, or nothing
PassTargets(well, pass, plate) ==
    IF InBounds(dest_row_ord(well, pass), dest_col(well, pass), plate)
    THEN << WellStr(<<Chr(dest_row_ord(well, pass))>>, dest_col(well, pass)) >>
    ELSE << >>

\* the wells a pass handles: if len(well) >= 2, in list order
HandledWells(wells) ==
    LET long(w) == Len(w) >= 2 IN SelectSeq(wells, long)

\* mappings[well] after all passes: passes in order, and in each the well's occurrences
AppendedTargets(well, wells, passes, plate) ==
    Concat([i \in 1..Len(passes) |->
        Concat([j \in 1..Len(HandledWells(wells)) |->
            IF HandledWells(wells)[j] = well THEN PassTargets(well, passes[i], plate)
            ELSE << >>])])

PassesRaise(wells, passes) ==
    \/ \E i \in 1..Len(passes) : passes[i].bad
    \/ /\ Len(passes) > 0
       /\ Len(HandledWells(wells)) > 0
       /\ \/ \E i \in 1..Len(passes) : passes[i].bad_row
          \/ \E w \in Range(HandledWells(wells)) : ~PyInt(Tail(w)).ok

\* the strategies that append to mappings[well]
AppendingStrategy(wells, passes, plate) ==
    IF PassesRaise(wells, passes) THEN Raised
    ELSE LET mapped == {w \in Range(HandledWells(wells)) :
                           Len(AppendedTargets(w, wells, passes, plate)) > 0}
         IN  Returned([w \in mapped |-> AppendedTargets(w, wells, passes, plate)])

\* exact_placement assigns mappings[well] = [dest] instead of appending
ExactPlacement(wells, plate) ==
    IF PassesRaise(wells, ExactPlacementPasses) THEN Raised
    ELSE LET mapped == {w \in Range(HandledWells(wells)) :
                           Len(PassTargets(w, ExactPlacementPasses[1], plate)) > 0}
         IN  Returned([w \in mapped |-> PassTargets(w, ExactPlacementPasses[1], plate)])

calculate_flexible_well_mappings(position_data, wells, plate) ==
    IF Len(wells) = 0 THEN Returned(EmptyMap)
    ELSE IF position_data.strategy = "exact_placement" THEN ExactPlacement(wells, plate)
    ELSE IF position_data.strategy = "row_placement"
    THEN AppendingStrategy(wells, RowPlacementPasses(position_data.positions), plate)
    ELSE IF position_data.strategy = "col_placement"
    THEN AppendingStrategy(wells, ColPlacementPasses(position_data.positions), plate)
    ELSE IF position_data.strategy = "quadrant_placement"
    THEN AppendingStrategy(wells, QuadrantPlacementPasses(position_data.positions, plate), plate)
    ELSE IF position_data.strategy = "row_pair_placement"
    THEN AppendingStrategy(wells, RowPairPlacementPasses(position_data.positions), plate)
    ELSE IF position_data.strategy = "half_placement"
    THEN AppendingStrategy(wells, HalfPlacementPasses(position_data.positions), plate)
    ELSE IF position_data.strategy = "block_placement"
    THEN AppendingStrategy(wells, BlockPlacementPasses(position_data.blocks), plate)
    ELSE Returned(EmptyMap)

\* A directive is [kind |-> "str", value |-> <string>] or
\* [kind |-> "dict", strategy |-> ..., positions |-> ..., blocks |-> ...].
calculate_well_mappings(pos, wells, plate) ==
    IF Len(wells) = 0 THEN Returned(EmptyMap)
    ELSE IF pos.kind = "dict" THEN calculate_flexible_well_mappings(pos, wells, plate)
    ELSE calculate_legacy_well_mappings(pos.value, wells)

(***************************************************************************)
(* Inputs of the resolver                                                  *)
(***************************************************************************)

MaxKitWells == 2

MaxPositions == 2

\* sorted(S) for a set of strings
RECURSIVE SortedSeq(_)
SortedSeq(S) ==
    IF S = {} THEN << >>
    ELSE LET m == CHOOSE x \in S : \A y \in S \ {x} : StrLess(x, y)
         IN  <<m>> \o SortedSeq(S \ {m})

SeqsUpTo(S, n) == UNION {[1..k -> S] : k \in 0..n}

\* Kit well identifiers: well-formed ones, and ones that do not parse into
\* (letter, number): one character, the empty string, a non-numeric column.
WellPool ==
    { <<"A", "1">>,
      <<"A", "2">>,
      <<"B", "1">>,
      <<"D", "6">>,
      <<"H", "1", "2">>,
      <<"A">>,
      <<>>,
      <<"A", "x">> }

Kit2x2 == << <<"A", "1">>, <<"A", "2">>, <<"B", "1">>, <<"B", "2">> >>

\* a sparse kit (rows A, C, F; columns 1, 3, 12) and a full first column (8 rows)
KitSparse == << <<"A", "1">>, <<"C", "3">>, <<"F", "1", "2">> >>

KitColumn == << <<"A", "1">>, <<"B", "1">>, <<"C", "1">>, <<"D", "1">>, <<"E", "1">>, <<"F", "1">>, <<"G", "1">>, <<"H", "1">> >>

Kits ==
    {SortedSeq(S) : S \in {T \in SUBSET WellPool : Cardinality(T) \in 1..MaxKitWells}}
    \cup {Kit2x2, KitSparse, KitColumn}

\* tags and ids the resolver recognizes, and malformed or unrecognized ones
GoodTags ==
    { TopLeft, TopRight, BottomLeft, BottomRight, AllQuadrants,
      TopQuadrants, BottomQuadrants, LeftQuadrants, RightQuadrants,
      <<"r", "o", "w", "-", "A">>,
      <<"r", "o", "w", "-", "H">>,
      <<"c", "o", "l", "-", "1">>,
      <<"c", "o", "l", "-", "1", "2">>,
      <<"r", "o", "w", "s", "-", "A", "-", "D">>,
      <<"r", "o", "w", "s", "-", "E", "-", "H">>,
      <<"c", "o", "l", "s", "-", "1", "-", "6">>,
      <<"c", "o", "l", "s", "-", "7", "-", "1", "2">> }

BadTags ==
    { <<"r", "o", "w", "-">>,
      <<"r", "o", "w", "-", "A", "B">>,
      <<"c", "o", "l", "-", "x">>,
      <<"c", "o", "l", "-">>,
      <<"r", "o", "w", "s", "-", "A">>,
      <<"r", "o", "w", "s", "-", "-", "D">>,
      <<"c", "o", "l", "s", "-", "x", "-", "2">>,
      <<"m", "i", "d", "d", "l", "e">> }

LegacyTags == GoodTags \cup BadTags

GoodRowIds == { <<"r", "o", "w", "-", "A">>,
      <<"r", "o", "w", "-", "E">> }

RowIds == GoodRowIds \cup { <<"r", "o", "w", "-">>,
      <<"r", "o", "w", "-", "A", "B">> }

GoodColIds == { <<"c", "o", "l", "-", "1">>,
      <<"c", "o", "l", "-", "7">> }

\* col-01 names column 1 in another spelling
ColIds == GoodColIds \cup { <<"c", "o", "l", "-", "x">>, <<"c", "o", "l", "-", "0", "1">> }

GoodQuadrantIds == { TopLeft, TopRight, BottomLeft, BottomRight }

QuadrantIds == GoodQuadrantIds \cup { <<"m", "i", "d", "d", "l", "e">> }

GoodRowPairIds == { PairAB, PairGH }

RowPairIds == GoodRowPairIds \cup { <<"X", "Y">> }

GoodHalfIds == { HalfUpper, HalfLower }

HalfIds == GoodHalfIds \cup { <<"m", "i", "d", "d", "l", "e">> }

GoodBlocks ==
    { [startRow |-> <<"A">>, startCol |-> 1], [startRow |-> <<"E">>, startCol |-> 7] }

Blocks == GoodBlocks \cup { [startRow |-> << >>, startCol |-> 1] }

Dict(strategy, positions, blocks) ==
    [kind |-> "dict", strategy |-> strategy, positions |-> positions, blocks |-> blocks]

Directives ==
    {[kind |-> "str", value |-> t] : t \in LegacyTags}
    \cup {Dict("exact_placement", << >>, << >>), Dict("spiral_placement", << >>, << >>)}
    \cup {Dict("row_placement", ps, << >>) : ps \in SeqsUpTo(RowIds, MaxPositions)}
    \cup {Dict("col_placement", ps, << >>) : ps \in SeqsUpTo(ColIds, MaxPositions)}
    \cup {Dict("quadrant_placement", ps, << >>) : ps \in SeqsUpTo(QuadrantIds, MaxPositions)}
    \cup {Dict("row_pair_placement", ps, << >>) : ps \in SeqsUpTo(RowPairIds, MaxPositions)}
    \cup {Dict("half_placement", ps, << >>) : ps \in SeqsUpTo(HalfIds, MaxPositions)}
    \cup {Dict("block_placement", << >>, bs) : bs \in SeqsUpTo(Blocks, MaxPositions)}

\* "384" stands for any tag that is no key of plate_configs
PlateTags == {"24", "48", "96", "384"}

Unused == << >>

(***************************************************************************)
(* The resolver as a state machine: a call, then its result                *)
(***************************************************************************)

InitResolve ==
    /\ attempts = Unused
    /\ clock = Unused
    /\ config = Unused
    /\ op = "resolve"
    /\ position \in Directives
    /\ kit_wells \in Kits
    /\ destination_plate \in PlateTags
    /\ mappings = Unused
    /\ content_wells = Unused
    /\ kit_size = Unused
    /\ design = Unused
    /\ current_procedure = Unused
    /\ new_procedure_data = Unused
    /\ current_experiment = Unused
    /\ heap = Unused
    /\ req = Unused
    /\ returned = Unused

CalculateWellMappings ==
    /\ op = "resolve"
    /\ mappings' = calculate_well_mappings(position, kit_wells, destination_plate)
    /\ op' = "resolved"
    /\ UNCHANGED <<attempts, clock, config, position, kit_wells, destination_plate, content_wells, kit_size, design,
                   current_procedure, new_procedure_data, current_experiment, heap, req,
                   returned>>

NextResolve == CalculateWellMappings

SpecResolve == InitResolve /\ [][NextResolve]_vars

(***************************************************************************)
(* Properties of the resolver (checked under SpecResolve)                  *)
(***************************************************************************)

A1 == <<"A", "1">>

A2 == <<"A", "2">>

B1 == <<"B", "1">>

B2 == <<"B", "2">>

\* A well identifier of the data model: a row letter A..H and a column 1..12 in
\* canonical form.
WellFormed(w) ==
    /\ Len(w) >= 2
    /\ w[1] \in {"A", "B", "C", "D", "E", "F", "G", "H"}
    /\ IsDigits(Tail(w))
    /\ w[2] # "0"
    /\ DigitsVal(Tail(w)) \in 1..12

\* The valid wells of a destination plate: rows A.. and columns 1.. of its geometry.
PlateRows(plate) == IF plate = "24" THEN 4 ELSE IF plate = "48" THEN 6 ELSE 8

PlateCols(plate) == IF plate = "24" THEN 6 ELSE IF plate = "48" THEN 8 ELSE 12

ValidWells(plate) ==
    {WellStr(<<Chr(Ord("A") + r)>>, c) : r \in 0..(PlateRows(plate) - 1), c \in 1..PlateCols(plate)}

\* Directives the resolver recognizes, every position id or block of which is well formed.
GoodDirective(pos) ==
    IF pos.kind = "str" THEN pos.value \in GoodTags
    ELSE \/ pos.strategy = "exact_placement"
         \/ pos.strategy = "row_placement" /\ Range(pos.positions) \subseteq GoodRowIds
         \/ pos.strategy = "col_placement" /\ Range(pos.positions) \subseteq GoodColIds
         \/ pos.strategy = "quadrant_placement" /\ Range(pos.positions) \subseteq GoodQuadrantIds
         \/ pos.strategy = "row_pair_placement" /\ Range(pos.positions) \subseteq GoodRowPairIds
         \/ pos.strategy = "half_placement" /\ Range(pos.positions) \subseteq GoodHalfIds
         \/ pos.strategy = "block_placement" /\ Range(pos.blocks) \subseteq GoodBlocks

ResolverReturned == op = "resolved" /\ ~mappings.raised

\* the destinations the returned mapping lists for kit well w
Destinations(w) == Range(mappings.mappings[w])

\* C1: every destination well in the returned mapping is a valid well of the
\* destination plate (stated here for recognized directives and kits of well-formed
\* wells, the cases in which nothing but the plate bound is at stake).
C1_DestinationsWithinPlate ==
    (ResolverReturned /\ GoodDirective(position) /\ \A w \in Range(kit_wells) : WellFormed(w))
        => \A w \in DOMAIN mappings.mappings : Destinations(w) \subseteq ValidWells(destination_plate)

\* rank of a well's row / column among the kit's distinct rows / columns
RowRank(w) == Cardinality({x[1] : x \in {y \in Range(kit_wells) : Ord(y[1]) < Ord(w[1])}})

ColRank(w) ==
    Cardinality({DigitsVal(Tail(x)) :
                    x \in {y \in Range(kit_wells) : DigitsVal(Tail(y)) < DigitsVal(Tail(w))}})

\* the well at (anchor_row + RowRank, anchor_col + ColRank)
Anchored(w, anchor_row, anchor_col) ==
    <<Chr(Ord(anchor_row) + RowRank(w))>> \o NatStr(anchor_col + ColRank(w))

SingleAnchor(tag) ==
    IF tag = TopLeft THEN <<"A", 1>>
    ELSE IF tag = TopRight THEN <<"A", 7>>
    ELSE IF tag = BottomLeft THEN <<"E", 1>>
    ELSE <<"E", 7>>

\* C3: under top-left, top-right, bottom-left and bottom-right every kit well maps to
\* exactly one destination, the anchor (A1, A7, E1, E7) shifted by the ranks of the
\* well's row and column among the kit's distinct rows and columns; the 2x2 kit maps
\* to itself under top-left and to E7, E8, F7, F8 under bottom-right.
C3_LegacyAnchorPlacement ==
    (ResolverReturned /\ position.kind = "str"
         /\ position.value \in {TopLeft, TopRight, BottomLeft, BottomRight})
        => /\ DOMAIN mappings.mappings = Range(kit_wells)
           /\ \A w \in Range(kit_wells) :
                  mappings.mappings[w] =
                      << Anchored(w, SingleAnchor(position.value)[1], SingleAnchor(position.value)[2]) >>
           /\ (kit_wells = Kit2x2 /\ position.value = TopLeft)
                  => mappings.mappings = [w \in {A1, A2, B1, B2} |-> <<w>>]
           /\ (kit_wells = Kit2x2 /\ position.value = BottomRight)
                  => mappings.mappings =
                         (A1 :> << <<"E", "7">> >>) @@ (A2 :> << <<"E", "8">> >>) @@
                         (B1 :> << <<"F", "7">> >>) @@ (B2 :> << <<"F", "8">> >>)

\* a sparse kit placed bottom-right: C3 lands on E7 / F8 / G9 by rank, with F12 in kit row 3
C3_Witness ==
    /\ ResolverReturned
    /\ position = [kind |-> "str", value |-> BottomRight]
    /\ kit_wells = KitSparse
    /\ mappings.mappings[<<"F", "1", "2">>] = << <<"G", "9">> >>

\* C4: under all-quadrants every kit well maps to exactly 4 destinations, one per
\* quadrant anchor A1, A7, E1, E7 at the same kit-relative offset; under top-, bottom-,
\* left- and right-quadrants to exactly the 2 destinations of the two named quadrants.
C4_QuadrantReplication ==
    (ResolverReturned /\ position.kind = "str")
        => \A w \in Range(kit_wells) :
            /\ position.value = AllQuadrants =>
                  /\ Len(mappings.mappings[w]) = 4
                  /\ Destinations(w) = {Anchored(w, "A", 1), Anchored(w, "A", 7),
                                        Anchored(w, "E", 1), Anchored(w, "E", 7)}
            /\ position.value = TopQuadrants =>
                  /\ Len(mappings.mappings[w]) = 2
                  /\ Destinations(w) = {Anchored(w, "A", 1), Anchored(w, "A", 7)}
            /\ position.value = BottomQuadrants =>
                  /\ Len(mappings.mappings[w]) = 2
                  /\ Destinations(w) = {Anchored(w, "E", 1), Anchored(w, "E", 7)}
            /\ position.value = LeftQuadrants =>
                  /\ Len(mappings.mappings[w]) = 2
                  /\ Destinations(w) = {Anchored(w, "A", 1), Anchored(w, "E", 1)}
            /\ position.value = RightQuadrants =>
                  /\ Len(mappings.mappings[w]) = 2
                  /\ Destinations(w) = {Anchored(w, "A", 7), Anchored(w, "E", 7)}

C4_Witness ==
    /\ ResolverReturned
    /\ position = [kind |-> "str", value |-> AllQuadrants]
    /\ kit_wells = Kit2x2
    /\ Destinations(B2) = { <<"B", "2">>, <<"B", "8">>, <<"F", "2">>, <<"F", "8">> }

\* a kit well identifier that parses into (row letter, column number)
Parseable(w) == Len(w) >= 2 /\ PyInt(Tail(w)).ok

\* C14: for every directive and kit, resolving with a destination-plate tag that is not
\* recognized (or absent, which the caller turns into "96") gives the same result as
\* resolving with the tag "96".
C14_DefaultPlateIs96 ==
    (op = "resolved" /\ destination_plate \notin {"24", "48", "96"})
        => mappings = calculate_well_mappings(position, kit_wells, "96")

\* an unrecognized tag, and a destination that neither a 24- nor a 48-well plate gives
C14_Witness ==
    /\ ResolverReturned
    /\ destination_plate = "384"
    /\ position = Dict("quadrant_placement", << BottomRight >>, << >>)
    /\ kit_wells = << A1 >>
    /\ mappings.mappings = (A1 :> << <<"E", "7">> >>)
    /\ calculate_well_mappings(position, kit_wells, "24").mappings = EmptyMap
    /\ calculate_well_mappings(position, kit_wells, "48").mappings = EmptyMap

\* the passes a structured directive makes over the kit, in the order of its positions
StrategyPasses(pos, plate) ==
    IF pos.strategy = "exact_placement" THEN ExactPlacementPasses
    ELSE IF pos.strategy = "row_placement" THEN RowPlacementPasses(pos.positions)
    ELSE IF pos.strategy = "col_placement" THEN ColPlacementPasses(pos.positions)
    ELSE IF pos.strategy = "quadrant_placement"
    THEN QuadrantPlacementPasses(pos.positions, plate)
    ELSE IF pos.strategy = "row_pair_placement" THEN RowPairPlacementPasses(pos.positions)
    ELSE IF pos.strategy = "half_placement" THEN HalfPlacementPasses(pos.positions)
    ELSE IF pos.strategy = "block_placement" THEN BlockPlacementPasses(pos.blocks)
    ELSE << >>

\* the computed destinations of kit well w whose row and column do not exceed the
\* plate's maxima, in the order of the requested positions
WithinMaxima(w) ==
    LET passes == StrategyPasses(position, destination_plate)
        kept(i) == /\ dest_row_ord(w, passes[i]) <= Ord("A") + PlateRows(destination_plate) - 1
                   /\ dest_col(w, passes[i]) <= PlateCols(destination_plate)
        order == SelectSeq([i \in 1..Len(passes) |-> i], kept)
    IN  [k \in 1..Len(order) |->
            <<Chr(dest_row_ord(w, passes[order[k]]))>> \o IntStr(dest_col(w, passes[order[k]]))]

\* C15: under every structured strategy a computed destination is in the kit well's
\* list if and only if its row and column do not exceed the plate's maxima; the
\* destinations of several positions or blocks are accumulated in the order of the
\* requested positions; a kit well with no in-bound destination has no entry.
C15_StructuredBounds ==
    (ResolverReturned /\ position.kind = "dict" /\ \A w \in Range(kit_wells) : Parseable(w))
        => \A w \in Range(kit_wells) :
               IF WithinMaxima(w) = << >> THEN w \notin DOMAIN mappings.mappings
               ELSE /\ w \in DOMAIN mappings.mappings
                    /\ mappings.mappings[w] = WithinMaxima(w)

\* two rows requested on a 24-well plate: A1 keeps row A and loses row E, H12 has no entry
C15_Witness ==
    /\ ResolverReturned
    /\ destination_plate = "24"
    /\ position = Dict("row_placement",
                       << <<"r", "o", "w", "-", "A">>, <<"r", "o", "w", "-", "E">> >>, << >>)
    /\ kit_wells = << A1, <<"H", "1", "2">> >>
    /\ mappings.mappings = (A1 :> << A1 >>)

\* the kit's origin: the top row and the left column of its wells
OriginRowOrd ==
    CHOOSE r \in {Ord(x[1]) : x \in Range(kit_wells)} :
        \A x \in Range(kit_wells) : r <= Ord(x[1])

OriginCol ==
    CHOOSE c \in {PyInt(Tail(x)).val : x \in Range(kit_wells)} :
        \A x \in Range(kit_wells) : c <= PyInt(Tail(x)).val

\* (startRow + r, startCol + c) for every block, r and c the distance of well w from the
\* kit's origin, as far as it is a well of the destination plate
BlockTargets(w) ==
    LET target(block) ==
            <<Chr(Ord(block.startRow[1]) + (Ord(w[1]) - OriginRowOrd))>>
                \o IntStr(block.startCol + (PyInt(Tail(w)).val - OriginCol))
        valid(d) == d \in ValidWells(destination_plate)
    IN  SelectSeq([i \in 1..Len(position.blocks) |-> target(position.blocks[i])], valid)

\* C16: under block_placement, for every block each kit well maps to
\* (startRow + r, startCol + c), r and c being the well's row and column distance from
\* the kit's origin (its topmost-leftmost well): the origin well lands on the block's
\* start well and the kit is replicated once per block.
C16_BlockPlacement ==
    (/\ ResolverReturned
     /\ position.kind = "dict"
     /\ position.strategy = "block_placement"
     /\ \A w \in Range(kit_wells) : Parseable(w))
        => \A w \in Range(kit_wells) :
               IF BlockTargets(w) = << >> THEN w \notin DOMAIN mappings.mappings
               ELSE /\ w \in DOMAIN mappings.mappings
                    /\ mappings.mappings[w] = BlockTargets(w)

\* the quadrant anchors of a plate, by quadrant id: two on a 48-well plate (A1 and C1),
\* four on a 96-well plate
QuadrantAnchorOf(plate) ==
    IF plate = "48"
    THEN (TopLeft :> <<"A", 1>>) @@ (TopRight :> <<"C", 1>>)
    ELSE (TopLeft :> <<"A", 1>>) @@ (TopRight :> <<"A", 7>>) @@
         (BottomLeft :> <<"E", 1>>) @@ (BottomRight :> <<"E", 7>>)

\* anchor plus the raw row and column offset of well w, for every requested quadrant
\* id that has an anchor, as far as it is a well of the destination plate
QuadrantPlacementTargets(w) ==
    LET anchors == QuadrantAnchorOf(destination_plate)
        anchored(id) == id \in DOMAIN anchors
        ids == SelectSeq(position.positions, anchored)
        target(id) == <<Chr(Ord(anchors[id][1]) + (Ord(w[1]) - Ord("A")))>>
                          \o IntStr(anchors[id][2] + (PyInt(Tail(w)).val - 1))
        valid(d) == d \in ValidWells(destination_plate)
    IN  SelectSeq([i \in 1..Len(ids) |-> target(ids[i])], valid)

NoRepeat(s) == \A i, j \in 1..Len(s) : s[i] = s[j] => i = j

C18_OtherAxisCopied ==
    (ResolverReturned /\ position.kind = "dict")
        => \A w \in DOMAIN mappings.mappings : \A d \in Destinations(w) :
               /\ position.strategy \in {"row_placement", "row_pair_placement", "half_placement"}
                      => PyInt(Tail(d)) = PyInt(Tail(w))
               /\ position.strategy = "col_placement" => d[1] = w[1]

\* row-E moves A2 and B1 to rows E and F and keeps their columns 2 and 1
C18_Witness ==
    /\ ResolverReturned
    /\ position = Dict("row_placement", << <<"r", "o", "w", "-", "E">> >>, << >>)
    /\ kit_wells = << A2, B1 >>
    /\ destination_plate = "96"
    /\ mappings.mappings = (A2 :> << <<"E", "2">> >>) @@ (B1 :> << <<"F", "1">> >>)

\* C19: under the legacy tag row-{L} every kit well maps to exactly one destination, in
\* row L at column 1 + the rank of its column among the kit's distinct columns; under
\* col-{N} to exactly one destination, in column N at row A + the rank of its row among
\* the kit's distinct rows.
C19_LegacyRowColPlacement ==
    (ResolverReturned /\ position.kind = "str")
        => /\ (StartsWith(position.value, RowPrefix) /\ Len(position.value) = 5)
                  => /\ DOMAIN mappings.mappings = Range(kit_wells)
                     /\ \A w \in Range(kit_wells) :
                            mappings.mappings[w] =
                                << <<position.value[5]>> \o NatStr(1 + ColRank(w)) >>
           /\ (StartsWith(position.value, ColPrefix)
                   /\ IsDigits(SubSeq(position.value, 5, Len(position.value))))
                  => /\ DOMAIN mappings.mappings = Range(kit_wells)
                     /\ \A w \in Range(kit_wells) :
                            mappings.mappings[w] =
                                << <<Chr(Ord("A") + RowRank(w))>>
                                       \o SubSeq(position.value, 5, Len(position.value)) >>

\* the sparse kit under row-H: columns 1, 3, 12 land on H1, H2, H3
C19_Witness ==
    /\ ResolverReturned
    /\ position = [kind |-> "str", value |-> <<"r", "o", "w", "-", "H">>]
    /\ kit_wells = KitSparse
    /\ mappings.mappings = (<<"A", "1">> :> << <<"H", "1">> >>)
                               @@ (<<"C", "3">> :> << <<"H", "2">> >>)
                               @@ (<<"F", "1", "2">> :> << <<"H", "3">> >>)

\* C8: the resolver never fails because of the directive: whatever the tag, strategy or
\* position ids, a kit of well-formed wells gets a mapping and no exception.
C8_NeverFailsOnDirective ==
    (op = "resolved" /\ \A w \in Range(kit_wells) : WellFormed(w)) => ~mappings.raised

\* C9: a kit well identifier that cannot be parsed into (row letter, column number)
\* makes the resolver raise, under recognized legacy and structured directives alike.
C9_UnparsableWellRaises ==
    (op = "resolved" /\ GoodDirective(position) /\ \E w \in Range(kit_wells) : ~Parseable(w))
        => mappings.raised

(***************************************************************************)
(* analyze_kit: the kit size computed from the wells that carry content    *)
(***************************************************************************)

MaxContentWells == 3

\* min() and max() of a set of one-character strings
MinChar(S) == CHOOSE x \in S : \A y \in S : Ord(x) <= Ord(y)

MaxChar(S) == CHOOSE x \in S : \A y \in S : Ord(y) <= Ord(x)

MinInt(S) == CHOOSE x \in S : \A y \in S : x <= y

MaxInt(S) == CHOOSE x \in S : \A y \in S : y <= x

ErrorResponse(code) == [status |-> code]

\* Fault variant of all_kit_wells: the column range stops one short of max_col.
all_kit_wells_short(rows, cols) ==
    {WellStr(<<Chr(row_ord)>>, col_num) :
        row_ord \in Ord(MinChar(rows))..Ord(MaxChar(rows)),
        col_num \in MinInt(cols)..(MaxInt(cols) - 1)}

\* for row_ord in range(ord(min_row), ord(max_row) + 1):
\*     for col_num in range(min_col, max_col + 1): f"{chr(row_ord)}{col_num}"
all_kit_wells(rows, cols) ==
    {WellStr(<<Chr(row_ord)>>, col_num) :
        row_ord \in Ord(MinChar(rows))..Ord(MaxChar(rows)),
        col_num \in MinInt(cols)..MaxInt(cols)}

\* Fault variant of analyze_kit: an empty design gets a zero-sized descriptor.
analyze_kit_zero(content) ==
    IF Len(content) = 0
    THEN [status |-> 200, rows |-> 0, columns |-> 0, total_wells |-> 0, content_wells |-> 0,
          row_range |-> << >>, col_range |-> << >>, wells |-> << >>]
    ELSE ErrorResponse(500)

\* The last part of analyze_kit, from "if not design_data".  content is
\* list(design_data.keys()): distinct strings.  A ValueError (int() of a non-number,
\* min() of an empty set) ends in the handler's except clause, a 500 response.
analyze_kit(content) ==
    IF Len(content) = 0 THEN ErrorResponse(400)
    ELSE IF ParseRaises(content) THEN ErrorResponse(500)
    ELSE LET rows == KitRows(content)
             cols == KitCols(content)
         IN  IF rows = {} \/ cols = {} THEN ErrorResponse(500)
             ELSE [status |-> 200,
                   rows |-> Ord(MaxChar(rows)) - Ord(MinChar(rows)) + 1,
                   columns |-> MaxInt(cols) - MinInt(cols) + 1,
                   total_wells |-> (Ord(MaxChar(rows)) - Ord(MinChar(rows)) + 1)
                                       * (MaxInt(cols) - MinInt(cols) + 1),
                   content_wells |-> Len(content),
                   row_range |-> IF Cardinality(rows) > 1
                                 THEN <<MinChar(rows), "-", MaxChar(rows)>>
                                 ELSE <<MinChar(rows)>>,
                   col_range |-> IF Cardinality(cols) > 1
                                 THEN IntStr(MinInt(cols)) \o <<"-">> \o IntStr(MaxInt(cols))
                                 ELSE IntStr(MinInt(cols)),
                   wells |-> SortedSeq(all_kit_wells(rows, cols))]

\* Well identifiers in the Design sheet: well-formed ones, a one-character
\* identifier and one with a non-numeric column.
ContentWellPool ==
    { <<"A", "1">>,
      <<"A", "2">>,
      <<"B", "1">>,
      <<"B", "2">>,
      <<"C", "3">>,
      <<"A", "1", "0">>,
      <<"H", "1", "2">>,
      <<"B">>,
      <<"A", "x">> }

ContentWellLists ==
    {SortedSeq(S) : S \in {T \in SUBSET ContentWellPool : Cardinality(T) <= MaxContentWells}}

InitAnalyze ==
    /\ attempts = Unused
    /\ clock = Unused
    /\ config = Unused
    /\ op = "analyze"
    /\ content_wells \in ContentWellLists
    /\ kit_size = Unused
    /\ position = Unused
    /\ kit_wells = Unused
    /\ destination_plate = Unused
    /\ mappings = Unused
    /\ design = Unused
    /\ current_procedure = Unused
    /\ new_procedure_data = Unused
    /\ current_experiment = Unused
    /\ heap = Unused
    /\ req = Unused
    /\ returned = Unused

AnalyzeKit ==
    /\ op = "analyze"
    /\ kit_size' = analyze_kit(content_wells)
    /\ op' = "analyzed"
    /\ UNCHANGED <<attempts, clock, config, position, kit_wells, destination_plate, mappings, content_wells, design,
                   current_procedure, new_procedure_data, current_experiment, heap, req,
                   returned>>

NextAnalyze == AnalyzeKit

SpecAnalyze == InitAnalyze /\ [][NextAnalyze]_vars

KitAnalyzed == op = "analyzed" /\ kit_size.status = 200

\* C2: for any non-empty set of content wells the wells list is exactly the Cartesian
\* product of the inclusive row range and the inclusive column range of the content
\* wells, total_wells = rows x columns, content_wells <= total_wells, and every content
\* well is an element of wells.
C2_BoundingBox ==
    KitAnalyzed =>
        /\ kit_size.total_wells = kit_size.rows * kit_size.columns
        /\ kit_size.content_wells <= kit_size.total_wells
        /\ Range(content_wells) \subseteq Range(kit_size.wells)
        /\ Len(kit_size.wells) = kit_size.total_wells
        /\ LET row_ords == {Ord(x[1]) : x \in Range(content_wells)}
               col_nums == {PyInt(Tail(x)).val : x \in Range(content_wells)}
           IN  Range(kit_size.wells) =
                   {<<Chr(r)>> \o IntStr(c) : r \in MinInt(row_ords)..MaxInt(row_ords),
                                              c \in MinInt(col_nums)..MaxInt(col_nums)}

\* C11: kit analysis with zero content wells is rejected with an error, and no answer
\* carries a kit size descriptor with zero rows, columns or wells.
C11_EmptyKitRejected ==
    op = "analyzed" =>
        /\ Len(content_wells) = 0 => kit_size.status = 400
        /\ kit_size.status = 200 =>
               /\ kit_size.rows > 0
               /\ kit_size.columns > 0
               /\ kit_size.total_wells > 0
               /\ Len(kit_size.wells) > 0

C11_Witness == op = "analyzed" /\ Len(content_wells) = 0 /\ kit_size.status = 400


(***************************************************************************)
(* apply_kit_design_to_procedure: the procedure merge engine               *)
(*                                                                         *)
(* A material is [name, amount, source]; amount is a Python string.  A     *)
(* procedure record is [well, materials].  design is the list of the       *)
(* design dict's items, in the dict's order.                               *)
(***************************************************************************)

\* float(s) for decimal strings with at most one fractional digit, as a number of
\* tenths; [ok |-> FALSE] stands for ValueError.  The amounts used below are
\* integers and halves, which binary floating point holds exactly.
PyFloat(s) ==
    LET dots == {i \in 1..Len(s) : s[i] = "."}
    IN  IF dots = {}
        THEN IF IsDigits(s) THEN [ok |-> TRUE, tenths |-> 10 * DigitsVal(s)]
             ELSE [ok |-> FALSE, tenths |-> 0]
        ELSE LET k == CHOOSE i \in dots : TRUE
                 int_part == SubSeq(s, 1, k - 1)
                 frac == SubSeq(s, k + 1, Len(s))
             IN  IF /\ Cardinality(dots) = 1
                    /\ Len(int_part) + Len(frac) > 0
                    /\ Len(frac) <= 1
                    /\ \A i \in 1..Len(int_part) : int_part[i] \in Digits
                    /\ \A i \in 1..Len(frac) : frac[i] \in Digits
                 THEN [ok |-> TRUE, tenths |-> 10 * DigitsVal(int_part) + DigitsVal(frac)]
                 ELSE [ok |-> FALSE, tenths |-> 0]

\* str(x) of a non-negative float that is a whole number of tenths: "8.0", "7.5"
FloatStr(tenths) == NatStr(tenths \div 10) \o <<".">> \o NatStr(tenths % 10)

\* Fault variant of merged_amount: the fallback keeps the existing amount.
merged_amount_keep(existing_amount, kit_amount) ==
    IF PyFloat(existing_amount).ok /\ PyFloat(kit_amount).ok
    THEN FloatStr(PyFloat(existing_amount).tenths + PyFloat(kit_amount).tenths)
    ELSE existing_amount

\* Fault variant of merged_amount: the sum is replaced by the new amount.
merged_amount_overwrite(existing_amount, kit_amount) == kit_amount

\* try: str(float(existing) + float(new))  except: the kit material's amount
merged_amount(existing_amount, kit_amount) ==
    IF PyFloat(existing_amount).ok /\ PyFloat(kit_amount).ok
    THEN FloatStr(PyFloat(existing_amount).tenths + PyFloat(kit_amount).tenths)
    ELSE kit_amount

\* kit_material = material.copy(); kit_material['source'] = 'kit_upload'
kit_material(material) == [material EXCEPT !.source = "kit_upload"]

\* Fault variant of add_material: the material is appended whatever the well holds.
add_material_append(materials, material) == Append(materials, kit_material(material))

\* One material into one well's material list: accumulate into the first entry of the
\* same name, or append.
add_material(materials, material) ==
    LET same == {i \in 1..Len(materials) : materials[i].name = material.name}
    IN  IF same # {}
        THEN LET i == MinInt(same)
             IN  [materials EXCEPT ![i].amount = merged_amount(@, kit_material(material).amount)]
        ELSE Append(materials, kit_material(material))

RECURSIVE add_materials(_, _)
add_materials(materials, kit_materials) ==
    IF Len(kit_materials) = 0 THEN materials
    ELSE add_materials(add_material(materials, Head(kit_materials)), Tail(kit_materials))

\* procedure_dict = {item['well']: item for item in current_procedure}, as the list of
\* its values: a well keeps the place of its first record and the value of its last.
RECURSIVE procedure_dict(_)
procedure_dict(procedure) ==
    IF Len(procedure) = 0 THEN << >>
    ELSE LET item == procedure[Len(procedure)]
             before == procedure_dict(SubSeq(procedure, 1, Len(procedure) - 1))
             at == {i \in 1..Len(before) : before[i].well = item.well}
         IN  IF at = {} THEN Append(before, item)
             ELSE [before EXCEPT ![CHOOSE i \in at : TRUE] = item]

\* Fault variant of add_to_well: the target well's record is replaced by the kit materials.
add_to_well_replace(dict, target_well, kit_materials) ==
    LET at == {i \in 1..Len(dict) : dict[i].well = target_well}
        fresh == [well |-> target_well, materials |-> add_materials(<< >>, kit_materials)]
    IN  IF at = {} THEN Append(dict, fresh)
        ELSE [dict EXCEPT ![CHOOSE i \in at : TRUE] = fresh]

\* get or create the entry of target_well, then add the kit well's materials to it
add_to_well(dict, target_well, kit_materials) ==
    LET at == {i \in 1..Len(dict) : dict[i].well = target_well}
    IN  IF at = {}
        THEN Append(dict, [well |-> target_well,
                           materials |-> add_materials(<< >>, kit_materials)])
        ELSE [dict EXCEPT ![CHOOSE i \in at : TRUE].materials = add_materials(@, kit_materials)]

RECURSIVE add_to_wells(_, _, _)
add_to_wells(dict, target_wells, kit_materials) ==
    IF Len(target_wells) = 0 THEN dict
    ELSE add_to_wells(add_to_well(dict, Head(target_wells), kit_materials),
                      Tail(target_wells), kit_materials)

\* for kit_well, materials in design.items(): if kit_well in well_mappings: ...
RECURSIVE apply_design(_, _, _)
apply_design(dict, design_items, well_mappings) ==
    IF Len(design_items) = 0 THEN dict
    ELSE LET item == Head(design_items)
         IN  apply_design(
                 IF item.well \in DOMAIN well_mappings
                 THEN add_to_wells(dict, well_mappings[item.well], item.materials)
                 ELSE dict,
                 Tail(design_items), well_mappings)

\* The result is [raised, procedure]: the exception of the resolver ends the call.
apply_kit_design_to_procedure(design_items, pos, wells, procedure, plate) ==
    LET well_mappings == calculate_well_mappings(pos, wells, plate)
    IN  IF well_mappings.raised THEN [raised |-> TRUE, procedure |-> << >>]
        ELSE [raised |-> FALSE,
              procedure |-> apply_design(procedure_dict(procedure), design_items,
                                         well_mappings.mappings)]

(***************************************************************************)
(* Inputs of the merge engine                                              *)
(***************************************************************************)

MaxMaterials == 1

MaxProcedureRecords == 2

E7 == <<"E", "7">>

Material(name, amount, source) == [name |-> name, amount |-> amount, source |-> source]

\* design entries: numeric amounts (an integer, a half) and a non-numeric one
KitMaterialPool ==
    { Material("NaCl", <<"5">>, "design"), Material("NaCl", <<"2", ".", "5">>, "design"),
      Material("NaCl", <<"x">>, "design"), Material("KBr", <<"5">>, "design") }

KitMaterialLists == UNION {[1..k -> KitMaterialPool] : k \in 1..MaxMaterials}

\* a design with content in A1, or in A1 and A2
Designs ==
    {<< [well |-> A1, materials |-> ms] >> : ms \in KitMaterialLists}
    \cup {<< [well |-> A1, materials |-> ms], [well |-> A2, materials |-> <<m>>] >> :
             ms \in KitMaterialLists, m \in KitMaterialPool}

\* material lists already in a well: entered by the user or left by an earlier kit
ExistingMaterialLists ==
    { << Material("NaCl", <<"3">>, "manual") >>,
      << Material("NaCl", <<"a", "b", "c">>, "manual") >>,
      << Material("LiCl", <<"1">>, "manual"), Material("NaCl", <<"3">>, "kit_upload") >> }

ProcedureRecords ==
    {[well |-> w, materials |-> ms] : w \in {A1, E7}, ms \in ExistingMaterialLists}

\* the stored procedure is whatever list was posted: a well may have several records
ProcedureLists == SeqsUpTo(ProcedureRecords, MaxProcedureRecords)

MergeDirectives ==
    { [kind |-> "str", value |-> TopLeft], [kind |-> "str", value |-> AllQuadrants],
      [kind |-> "str", value |-> <<"c", "o", "l", "-", "x">>] }

MergeKit == << A1, A2 >>

MergePlates == {"96", "24"}

InitMerge ==
    /\ attempts = Unused
    /\ clock = Unused
    /\ config = Unused
    /\ op = "merge"
    /\ design \in Designs
    /\ position \in MergeDirectives
    /\ kit_wells = MergeKit
    /\ destination_plate \in MergePlates
    /\ current_procedure \in ProcedureLists
    /\ new_procedure_data = Unused
    /\ mappings = Unused
    /\ content_wells = Unused
    /\ kit_size = Unused
    /\ current_experiment = Unused
    /\ heap = Unused
    /\ req = Unused
    /\ returned = Unused

ApplyKitDesignToProcedure ==
    /\ op = "merge"
    /\ new_procedure_data' = apply_kit_design_to_procedure(design, position, kit_wells,
                                                           current_procedure, destination_plate)
    /\ op' = "merged"
    /\ UNCHANGED <<attempts, clock, config, position, kit_wells, destination_plate, mappings, content_wells, kit_size,
                   design, current_procedure, current_experiment, heap, req,
                   returned>>

NextMerge == ApplyKitDesignToProcedure

SpecMerge == InitMerge /\ [][NextMerge]_vars

(***************************************************************************)
(* Properties of the merge engine (checked under SpecMerge)                *)
(***************************************************************************)

Merged == op = "merged" /\ ~new_procedure_data.raised

\* the destination wells of kit well w under the directive of the state
TargetsOf(w) ==
    LET m == calculate_well_mappings(position, kit_wells, destination_plate).mappings
    IN  IF w \in DOMAIN m THEN Range(m[w]) ELSE {}

\* the input has one record of well w, the first design item places one material m
\* into w (no other design item reaches w: the kit wells' targets are disjoint under
\* the directives used here), and w already holds exactly one material of m's name
SingleMerge(w, m) ==
    /\ Merged
    /\ design[1].materials = <<m>>
    /\ w \in TargetsOf(design[1].well)
    /\ Cardinality({i \in 1..Len(current_procedure) : current_procedure[i].well = w}) = 1
    /\ \A i \in 1..Len(current_procedure) :
           current_procedure[i].well = w =>
               Cardinality({j \in 1..Len(current_procedure[i].materials) :
                               current_procedure[i].materials[j].name = m.name}) = 1

\* the material entries named n in the input's / the output's record of well w
EntriesBefore(w, n) ==
    LET r == CHOOSE x \in Range(current_procedure) : x.well = w
    IN  SelectSeq(r.materials, LAMBDA x : x.name = n)

EntriesAfter(w, n) ==
    LET r == CHOOSE x \in Range(new_procedure_data.procedure) : x.well = w
    IN  SelectSeq(r.materials, LAMBDA x : x.name = n)

\* the value of a decimal amount string in tenths, read digit by digit
Tenths(s) ==
    IF \E i \in 1..Len(s) : s[i] = "."
    THEN 10 * DigitsVal(SubSeq(s, 1, Len(s) - 2)) + DigitsVal(SubSeq(s, Len(s), Len(s)))
    ELSE 10 * DigitsVal(s)

Numeric(s) == s \in { <<"3">>, <<"5">>, <<"1">>, <<"2", ".", "5">> }

\* C5 as stated: the well keeps a single entry of the name, whose amount is the
\* numeric sum written as the spec writes it: existing "3" plus kit "5" yields "8".
C5_SumAsStated ==
    \A w \in {A1, E7} : \A m \in KitMaterialPool :
        (SingleMerge(w, m) /\ EntriesBefore(w, m.name)[1].amount = <<"3">> /\ m.amount = <<"5">>)
            => /\ Len(EntriesAfter(w, m.name)) = 1
               /\ EntriesAfter(w, m.name)[1].amount = <<"8">>

\* C5 amended: the well keeps a single entry of the name and no second one is
\* appended; when both amounts are numeric its amount is the string form of the
\* floating-point sum: existing "3" plus kit "5" yields "8.0".
C5_FloatSum ==
    \A w \in {A1, E7} : \A m \in KitMaterialPool :
        (SingleMerge(w, m) /\ Numeric(EntriesBefore(w, m.name)[1].amount) /\ Numeric(m.amount))
            => /\ Len(EntriesAfter(w, m.name)) = 1
               /\ Tenths(EntriesAfter(w, m.name)[1].amount)
                      = Tenths(EntriesBefore(w, m.name)[1].amount) + Tenths(m.amount)
               /\ (EntriesBefore(w, m.name)[1].amount = <<"3">> /\ m.amount = <<"5">>)
                      => EntriesAfter(w, m.name)[1].amount = <<"8", ".", "0">>

C5_Witness ==
    /\ SingleMerge(A1, Material("NaCl", <<"5">>, "design"))
    /\ EntriesBefore(A1, "NaCl")[1].amount = <<"3">>
    /\ EntriesAfter(A1, "NaCl")[1].amount = <<"8", ".", "0">>

\* every design entry reached its destination wells: each target of each design item
\* has a record that holds a material of the entry's name
DesignApplied ==
    \A i \in 1..Len(design) : \A t \in TargetsOf(design[i].well) :
        \A k \in 1..Len(design[i].materials) :
            \E o \in Range(new_procedure_data.procedure) :
                /\ o.well = t
                /\ \E x \in Range(o.materials) : x.name = design[i].materials[k].name

\* C10: when the existing or the new amount is not numeric the merge does not fail:
\* the existing entry's amount becomes the kit material's raw amount string, and every
\* other well and material is processed as usual.
C10_NonNumericOverwrites ==
    /\ (op = "merged" /\ new_procedure_data.raised)
           => calculate_well_mappings(position, kit_wells, destination_plate).raised
    /\ \A w \in {A1, E7} : \A m \in KitMaterialPool :
           (SingleMerge(w, m)
               /\ ~(Numeric(EntriesBefore(w, m.name)[1].amount) /\ Numeric(m.amount)))
               => /\ Len(EntriesAfter(w, m.name)) = 1
                  /\ EntriesAfter(w, m.name)[1].amount = m.amount
                  /\ DesignApplied

\* existing "abc" meets kit "5" in A1, and a second design item is placed as well
C10_Witness ==
    /\ SingleMerge(A1, Material("NaCl", <<"5">>, "design"))
    /\ EntriesBefore(A1, "NaCl")[1].amount = <<"a", "b", "c">>
    /\ EntriesAfter(A1, "NaCl")[1].amount = <<"5">>
    /\ Len(design) = 2

\* C6: the returned list is a superset of the input: every input record is present in
\* the output, a record of a well no kit well maps to is unchanged, and in a targeted
\* well every pre-existing material whose name differs from the kit materials placed
\* there is unchanged.
C6_SupersetOfInput ==
    Merged =>
        \A i \in 1..Len(current_procedure) :
            LET r == current_procedure[i]
                targeted == \E j \in 1..Len(design) : r.well \in TargetsOf(design[j].well)
            IN  IF ~targeted THEN r \in Range(new_procedure_data.procedure)
                ELSE \E o \in Range(new_procedure_data.procedure) :
                        /\ o.well = r.well
                        /\ \A x \in Range(r.materials) :
                               (\A j \in 1..Len(design) : \A k \in 1..Len(design[j].materials) :
                                    r.well \in TargetsOf(design[j].well)
                                        => design[j].materials[k].name # x.name)
                                   => x \in Range(o.materials)

\* no record of the procedure holds two material entries of one name
NoDuplicateNames(procedure) ==
    \A i \in 1..Len(procedure) :
        \A j, k \in 1..Len(procedure[i].materials) :
            procedure[i].materials[j].name = procedure[i].materials[k].name => j = k

\* C28: apply_kit_design_to_procedure preserves this property of its input: when no
\* well of the input procedure (the empty one included) holds two material entries of
\* one name, no well of the returned procedure does, so no sequence of kit
\* applications that starts from an empty procedure creates such a well.
C28_NoDuplicateNames ==
    (Merged /\ NoDuplicateNames(current_procedure)) =>
        NoDuplicateNames(new_procedure_data.procedure)

\* NaCl applied to a well that holds LiCl and NaCl: the well still has two entries
C28_Witness ==
    /\ Merged
    /\ current_procedure =
           << [well |-> A1,
               materials |-> << Material("LiCl", <<"1">>, "manual"),
                                Material("NaCl", <<"3">>, "kit_upload") >>] >>
    /\ design[1].well = A1
    /\ design[1].materials[1].name = "NaCl"
    /\ A1 \in TargetsOf(A1)
    /\ Len(new_procedure_data.procedure[1].materials) = 2
    /\ Len(new_procedure_data.procedure) > 1

(***************************************************************************)
(* The kit-apply handler over the shared experiment (routes/kit.py)        *)
(*                                                                         *)
(* Each request runs in a thread of its own.  current_experiment.get and   *)
(* current_experiment[...] = ... take _experiment_lock for the single read *)
(* or write and release it on return; the handler itself holds no lock.    *)
(* An action below is one stretch of the handler between two acquisitions  *)
(* of the lock.  Lists and records are objects: heap.lists and             *)
(* heap.records give the value of each object, and the variables hold      *)
(* references (indices), so that a change made in place is seen through    *)
(* every reference.                                                        *)
(***************************************************************************)

MaxThreads == 2

Threads == 1..MaxThreads

\* an entry of the request's materials list
KitListMaterial(name, cas) ==
    [name |-> name, alias |-> "", cas |-> cas, smiles |-> "", source |-> "kit_upload"]

\* data = request.json
ApplyRequest(materials, design_items, pos) ==
    [materials |-> materials, design |-> design_items, position |-> pos,
     kit_size |-> << A1 >>, destination_plate |-> "96"]

ApplyRequests ==
    { ApplyRequest(<< KitListMaterial("NaCl", "7647-14-5") >>,
                   << [well |-> A1, materials |-> << Material("NaCl", <<"5">>, "design") >>] >>,
                   [kind |-> "str", value |-> TopLeft]),
      ApplyRequest(<< KitListMaterial("KBr", "7758-02-3") >>,
                   << [well |-> A1, materials |-> << Material("KBr", <<"5">>, "design") >>] >>,
                   [kind |-> "str", value |-> TopLeft]),
      ApplyRequest(<< KitListMaterial("KBr", "7758-02-3") >>,
                   << [well |-> A1, materials |-> << Material("KBr", <<"5">>, "design") >>] >>,
                   [kind |-> "str", value |-> BottomRight]),
      ApplyRequest(<< KitListMaterial("NaCl", "7647-14-5") >>,
                   << [well |-> A1, materials |-> << Material("NaCl", <<"5">>, "design") >>] >>,
                   [kind |-> "str", value |-> <<"c", "o", "l", "-", "x">>]),
      ApplyRequest(<< >>,
                   << [well |-> A1, materials |-> << Material("NaCl", <<"5">>, "design") >>] >>,
                   [kind |-> "str", value |-> TopLeft]),
      ApplyRequest(<< KitListMaterial("NaCl", "7647-14-5") >>, << >>,
                   [kind |-> "str", value |-> TopLeft]),
      ApplyRequest(<< KitListMaterial("NaCl", "7647-14-5") >>,
                   << [well |-> A1, materials |-> << Material("NaCl", <<"5">>, "design") >>] >>,
                   [kind |-> "str", value |-> << >>]) }

\* the experiment before the requests: new, or with one material and one filled well
StoredExperiments ==
    { [lists |-> << << >> >>, records |-> << >>, procedure |-> << >>],
      [lists |-> << << KitListMaterial("NaCl", "7647-14-5") >> >>,
       records |-> << [well |-> A1, materials |-> << Material("NaCl", <<"3">>, "manual") >>] >>,
       procedure |-> << 1 >>] }

\* is_duplicate: the material matches an existing one by name, CAS or SMILES
is_duplicate(current_materials, material) ==
    \E i \in 1..Len(current_materials) :
        LET existing == current_materials[i]
        IN  \/ (existing.name # "" /\ material.name # "" /\ existing.name = material.name)
            \/ (existing.cas # "" /\ material.cas # "" /\ existing.cas = material.cas)
            \/ (existing.smiles # "" /\ material.smiles # ""
                    /\ existing.smiles = material.smiles)

\* the records a list of references stands for
Deref(refs) == [i \in 1..Len(refs) |-> heap.records[refs[i]]]

\* len([w for w in new_procedure_data if any(m.get('source') == 'kit_upload' ...)])
procedure_wells_updated(records) ==
    Cardinality({i \in 1..Len(records) :
                    \E j \in 1..Len(records[i].materials) :
                        records[i].materials[j].source = "kit_upload"})

InitApply ==
    /\ attempts = Unused
    /\ clock = Unused
    /\ config = Unused
    /\ op = "apply"
    /\ \E e \in StoredExperiments :
           /\ heap = [lists |-> e.lists, records |-> e.records]
           /\ current_experiment = [materials |-> 1, procedure |-> e.procedure]
    /\ req \in [Threads -> {[pc |-> "start", data |-> d, current_materials |-> None,
                             current_procedure |-> None, new_procedure_data |-> None,
                             index |-> 1, is_duplicate |-> FALSE,
                             added_materials |-> 0, skipped_materials |-> 0,
                             response |-> None] : d \in ApplyRequests}]
    /\ position = Unused
    /\ kit_wells = Unused
    /\ destination_plate = Unused
    /\ mappings = Unused
    /\ content_wells = Unused
    /\ kit_size = Unused
    /\ design = Unused
    /\ current_procedure = Unused
    /\ new_procedure_data = Unused
    /\ returned = Unused

ApplyUnchanged ==
    UNCHANGED <<op, attempts, clock, config, position, kit_wells, destination_plate, mappings, content_wells,
                kit_size, design, current_procedure, new_procedure_data, returned>>

\* Fault variant of Validate: every request is let through.
Validate_unchecked(t) ==
    /\ op = "apply"
    /\ req[t].pc = "start"
    /\ req' = [req EXCEPT ![t].pc = "get_materials"]
    /\ UNCHANGED <<heap, current_experiment>>
    /\ ApplyUnchanged

\* if not materials or not design or not position: 400
Validate(t) ==
    /\ op = "apply"
    /\ req[t].pc = "start"
    /\ LET d == req[t].data
       IN  IF Len(d.materials) = 0 \/ Len(d.design) = 0
              \/ (d.position.kind = "str" /\ Len(d.position.value) = 0)
           THEN req' = [req EXCEPT ![t].pc = "done",
                                   ![t].response = [status |-> 400]]
           ELSE req' = [req EXCEPT ![t].pc = "get_materials"]
    /\ UNCHANGED <<heap, current_experiment>>
    /\ ApplyUnchanged

\* current_materials = current_experiment.get('materials', [])
GetMaterials(t) ==
    /\ op = "apply"
    /\ req[t].pc = "get_materials"
    /\ req' = [req EXCEPT ![t].pc = "get_procedure",
                          ![t].current_materials = current_experiment.materials]
    /\ UNCHANGED <<heap, current_experiment>>
    /\ ApplyUnchanged

\* current_procedure = current_experiment.get('procedure', [])
GetProcedure(t) ==
    /\ op = "apply"
    /\ req[t].pc = "get_procedure"
    /\ req' = [req EXCEPT ![t].pc = "add_materials",
                          ![t].current_procedure = current_experiment.procedure]
    /\ UNCHANGED <<heap, current_experiment>>
    /\ ApplyUnchanged

\* for material in materials: is_duplicate = any(... for existing in current_materials),
\* evaluated on the list object as it is now; index is the position in the loop
CheckDuplicate(t) ==
    /\ op = "apply"
    /\ req[t].pc = "add_materials"
    /\ req' = [req EXCEPT ![t].pc = "add_or_skip",
                          ![t].is_duplicate =
                              is_duplicate(heap.lists[req[t].current_materials],
                                           req[t].data.materials[req[t].index])]
    /\ UNCHANGED <<heap, current_experiment>>
    /\ ApplyUnchanged

\* if is_duplicate: skipped_materials.append(...) else: added_materials.append(material);
\* current_materials.append(material): the append goes to the list object itself
AddOrSkip(t) ==
    /\ op = "apply"
    /\ req[t].pc = "add_or_skip"
    /\ LET ref == req[t].current_materials
           material == req[t].data.materials[req[t].index]
           next == IF req[t].index = Len(req[t].data.materials)
                   THEN "merge" ELSE "add_materials"
       IN  IF req[t].is_duplicate
           THEN /\ req' = [req EXCEPT ![t].pc = next, ![t].index = @ + 1,
                                      ![t].skipped_materials = @ + 1]
                /\ UNCHANGED heap
           ELSE /\ req' = [req EXCEPT ![t].pc = next, ![t].index = @ + 1,
                                      ![t].added_materials = @ + 1]
                /\ heap' = [heap EXCEPT !.lists[ref] = Append(@, material)]
    /\ UNCHANGED current_experiment
    /\ ApplyUnchanged

\* new_procedure_data = apply_kit_design_to_procedure(...): the records of
\* current_procedure are changed in place, the records of new wells are new objects
\* that only the returned list refers to.  An exception ends the request with 500.
MergeDesign(t) ==
    /\ op = "apply"
    /\ req[t].pc = "merge"
    /\ LET d == req[t].data
           cur == req[t].current_procedure
           kept == procedure_dict([i \in 1..Len(cur) |->
                                      [well |-> heap.records[cur[i]].well, ref |-> cur[i]]])
           result == apply_kit_design_to_procedure(d.design, d.position, d.kit_size,
                                                   Deref(cur), d.destination_plate)
           n == Len(heap.records)
           total == n + Len(result.procedure) - Len(kept)
           at(id) == {i \in 1..Len(kept) : kept[i].ref = id}
       IN  IF result.raised
           THEN /\ req' = [req EXCEPT ![t].pc = "done",
                                      ![t].response = [status |-> 500]]
                /\ UNCHANGED heap
           ELSE /\ heap' = [heap EXCEPT !.records =
                               [id \in 1..total |->
                                   IF id > n THEN result.procedure[Len(kept) + id - n]
                                   ELSE IF at(id) # {}
                                        THEN result.procedure[CHOOSE i \in at(id) : TRUE]
                                        ELSE heap.records[id]]]
                /\ req' = [req EXCEPT ![t].pc = "set_materials",
                                      ![t].new_procedure_data =
                                          [i \in 1..Len(result.procedure) |->
                                              IF i <= Len(kept) THEN kept[i].ref
                                              ELSE n + i - Len(kept)]]
    /\ UNCHANGED current_experiment
    /\ ApplyUnchanged

\* current_experiment['materials'] = current_materials
SetMaterials(t) ==
    /\ op = "apply"
    /\ req[t].pc = "set_materials"
    /\ current_experiment' = [current_experiment EXCEPT
                                 !.materials = req[t].current_materials]
    /\ req' = [req EXCEPT ![t].pc = "set_procedure"]
    /\ UNCHANGED heap
    /\ ApplyUnchanged

\* current_experiment['procedure'] = new_procedure_data
SetProcedure(t) ==
    /\ op = "apply"
    /\ req[t].pc = "set_procedure"
    /\ current_experiment' = [current_experiment EXCEPT
                                 !.procedure = req[t].new_procedure_data]
    /\ req' = [req EXCEPT ![t].pc = "respond"]
    /\ UNCHANGED heap
    /\ ApplyUnchanged

\* return jsonify({...}), 200
Respond(t) ==
    /\ op = "apply"
    /\ req[t].pc = "respond"
    /\ req' = [req EXCEPT ![t].pc = "done",
                          ![t].response =
                              [status |-> 200,
                               added_materials |-> req[t].added_materials,
                               skipped_materials |-> req[t].skipped_materials,
                               procedure_wells_updated |->
                                   procedure_wells_updated(
                                       Deref(req[t].new_procedure_data))]]
    /\ UNCHANGED <<heap, current_experiment>>
    /\ ApplyUnchanged

NextApply ==
    \E t \in Threads :
        \/ Validate(t)
        \/ GetMaterials(t)
        \/ GetProcedure(t)
        \/ CheckDuplicate(t)
        \/ AddOrSkip(t)
        \/ MergeDesign(t)
        \/ SetMaterials(t)
        \/ SetProcedure(t)
        \/ Respond(t)

SpecApply == InitApply /\ [][NextApply]_vars

(***************************************************************************)
(* Properties of the kit-apply handler (checked under SpecApply)           *)
(***************************************************************************)

AllDone == op = "apply" /\ \A t \in Threads : req[t].pc = "done"

\* the procedure list the experiment holds, as records
StoredProcedure == Deref(current_experiment.procedure)

\* the destination wells request t wrote, each with the names of the kit materials
\* it placed there
Written(t) ==
    LET d == req[t].data
        m == calculate_well_mappings(d.position, d.kit_size, d.destination_plate).mappings
    IN  UNION { UNION { {[well |-> w, name |-> d.design[j].materials[k].name] :
                            w \in Range(m[d.design[j].well])} :
                        k \in 1..Len(d.design[j].materials)} :
                j \in {j \in 1..Len(d.design) : d.design[j].well \in DOMAIN m} }

\* C7: after two overlapping kit-apply requests have both completed, the stored
\* procedure contains every destination well, with its kit materials, that either
\* request wrote: no update is lost.
C7_NoLostUpdate ==
    AllDone =>
        \A t \in Threads :
            req[t].response.status = 200 =>
                \A x \in Written(t) :
                    \E i \in 1..Len(StoredProcedure) :
                        /\ StoredProcedure[i].well = x.well
                        /\ \E j \in 1..Len(StoredProcedure[i].materials) :
                               StoredProcedure[i].materials[j].name = x.name

\* a request in which materials, design or position is missing or empty
MissingData(d) ==
    \/ d.materials = << >>
    \/ d.design = << >>
    \/ d.position = [kind |-> "str", value |-> << >>]

\* C12: a kit-apply request in which materials, design or position is missing or empty
\* is rejected with an error response, and no step of it changes the experiment's
\* materials or procedure.
C12_RejectedRequestChangesNothing ==
    [][\A t \in Threads :
           (MissingData(req[t].data) /\ req'[t] # req[t]) =>
               /\ req'[t].pc = "done"
               /\ req'[t].response.status = 400
               /\ heap' = heap
               /\ current_experiment' = current_experiment]_vars

\* a rejected request next to one that was applied
C12_Witness ==
    /\ op = "apply"
    /\ \E t \in Threads :
           MissingData(req[t].data) /\ req[t].pc = "done" /\ req[t].response.status = 400
    /\ Len(current_experiment.procedure) > 0
    /\ \E t \in Threads : req[t].pc = "done" /\ req[t].response.status = 200

\* C20: the procedure_wells_updated count a kit-apply request reports equals the number
\* of procedure wells this application added a material to or accumulated an amount
\* into, that is, the number of destination wells it wrote; wells it did not touch are
\* not counted.
C20_WellsUpdatedCount ==
    op = "apply" =>
        \A t \in Threads :
            (req[t].pc = "done" /\ req[t].response.status = 200)
                => req[t].response.procedure_wells_updated
                       = Cardinality({x.well : x \in Written(t)})

\* C24: in a kit-apply request every kit material is either added or skipped, so
\* added_materials + skipped_materials is the number of materials in the request, and
\* a material is skipped exactly when a material already in the experiment, or added
\* earlier in the same request, has the same non-empty name, CAS or SMILES: when the
\* request is about to add or skip a material, its decision agrees with the materials
\* list as it is.
C24_AddedOrSkipped ==
    op = "apply" =>
        \A t \in Threads :
            /\ (req[t].pc = "done" /\ req[t].response.status = 200) =>
                   req[t].response.added_materials + req[t].response.skipped_materials
                       = Len(req[t].data.materials)
            /\ req[t].pc = "add_or_skip" =>
                   (req[t].is_duplicate <=>
                        is_duplicate(heap.lists[req[t].current_materials],
                                     req[t].data.materials[req[t].index]))

\* C27: kit apply is all-or-nothing: a request that ends in an error leaves the
\* experiment's materials list and procedure list, the materials inside each well
\* included, exactly as they were; so when every request has ended in an error the
\* experiment is one of the stored experiments the requests started from.
C27_AllOrNothing ==
    (AllDone /\ \A t \in Threads : req[t].response.status # 200) =>
        \E e \in StoredExperiments :
            /\ heap.lists[current_experiment.materials] = e.lists[1]
            /\ StoredProcedure = [i \in 1..Len(e.procedure) |-> e.records[e.procedure[i]]]

(***************************************************************************)
(* Calls of the resolver among changes of the experiment                   *)
(*                                                                         *)
(* returned is the log of the calls of calculate_well_mappings: arguments  *)
(* and result.  Between the calls the experiment is changed by the         *)
(* handlers that replace its plate type and procedure or reset it; here    *)
(* the sections of current_experiment are held by value.                   *)
(***************************************************************************)

MaxCalls == 2

\* update_procedure_plate_type: the entries of the posted procedure that fit the plate
fits_plate(entry, new_plate_type) ==
    LET well == IF "well" \in DOMAIN entry THEN entry.well ELSE << >>
        max_row == IF new_plate_type = "24" THEN "D"
                   ELSE IF new_plate_type = "48" THEN "F" ELSE "H"
        max_col == IF new_plate_type = "24" THEN 6
                   ELSE IF new_plate_type = "48" THEN 8 ELSE 12
        col_number == IF IsDigits(Tail(well)) THEN DigitsVal(Tail(well)) ELSE 0
    IN  /\ Len(well) >= 2
        /\ Ord(well[1]) <= Ord(max_row)
        /\ col_number <= max_col

valid_procedure(posted_procedure, new_plate_type) ==
    LET fits(entry) == fits_plate(entry, new_plate_type)
    IN  SelectSeq(posted_procedure, fits)

\* _current_experiment as reset_experiment leaves it (context and procedure)
NewExperiment == [context |-> [plate_type |-> None], procedure |-> << >>]

PureDirectives ==
    { [kind |-> "str", value |-> BottomRight],
      Dict("exact_placement", << >>, << >>),
      Dict("row_placement", << <<"r", "o", "w", "-", "E">> >>, << >>),
      Dict("block_placement", << >>, << [startRow |-> <<"E">>, startCol |-> 7] >>) }

PureKits == { << A1 >>, KitSparse }

PurePlates == {"24", "96", "384"}

PostedProcedures ==
    { << >>,
      << [well |-> A1, materials |-> << Material("NaCl", <<"3">>, "manual") >>],
         [well |-> E7, materials |-> << Material("NaCl", <<"3">>, "manual") >>] >> }

InitPure ==
    /\ attempts = Unused
    /\ clock = Unused
    /\ config = Unused
    /\ op = "pure"
    /\ current_experiment = NewExperiment
    /\ returned = << >>
    /\ position = Unused
    /\ kit_wells = Unused
    /\ destination_plate = Unused
    /\ mappings = Unused
    /\ content_wells = Unused
    /\ kit_size = Unused
    /\ design = Unused
    /\ current_procedure = Unused
    /\ new_procedure_data = Unused
    /\ heap = Unused
    /\ req = Unused

PureUnchanged ==
    UNCHANGED <<op, attempts, clock, config, position, kit_wells, destination_plate, mappings, content_wells,
                kit_size, design, current_procedure, new_procedure_data, heap, req>>

\* one call of calculate_well_mappings
CallResolver ==
    /\ op = "pure"
    /\ Len(returned) < MaxCalls
    /\ \E pos \in PureDirectives, wells \in PureKits, plate \in PurePlates :
           returned' = Append(returned,
                              [position |-> pos, kit_size |-> wells,
                               destination_plate |-> plate,
                               mappings |-> calculate_well_mappings(pos, wells, plate)])
    /\ UNCHANGED current_experiment
    /\ PureUnchanged

\* POST /api/experiment/procedure/update-plate-type
UpdateProcedurePlateType ==
    /\ op = "pure"
    /\ \E new_plate_type \in {"24", "96"}, posted \in PostedProcedures :
           current_experiment' =
               [context |-> [plate_type |-> new_plate_type],
                procedure |-> valid_procedure(posted, new_plate_type)]
    /\ UNCHANGED returned
    /\ PureUnchanged

\* reset_experiment
ResetExperiment ==
    /\ op = "pure"
    /\ current_experiment' = NewExperiment
    /\ UNCHANGED returned
    /\ PureUnchanged

NextPure == CallResolver \/ UpdateProcedurePlateType \/ ResetExperiment

SpecPure == InitPure /\ [][NextPure]_vars

MaxRequests == 3

EmptyDict == << >>

\* d[k] = v
DictSet(d, k, v) == [x \in DOMAIN d \cup {k} |-> IF x = k THEN v ELSE d[x]]

Str(s) == [kind |-> "str", value |-> s]

\* s.split(sep)
RECURSIVE SplitOn(_, _)
SplitOn(s, sep) ==
    IF \A i \in 1..Len(s) : s[i] # sep THEN <<s>>
    ELSE LET k == CHOOSE i \in 1..Len(s) :
                      s[i] = sep /\ \A j \in 1..(i - 1) : s[j] # sep
         IN  <<SubSeq(s, 1, k - 1)>> \o SplitOn(SubSeq(s, k + 1, Len(s)), sep)

\* sub in s
Contains(s, sub) ==
    \E i \in 1..(Len(s) - Len(sub) + 1) : SubSeq(s, i, i + Len(sub) - 1) = sub

\* calendar.monthrange(year, month)[1]
DaysInMonth(year, month) ==
    IF month = 2
    THEN IF (year % 4 = 0 /\ year % 100 # 0) \/ year % 400 = 0 THEN 29 ELSE 28
    ELSE IF month \in {4, 6, 9, 11} THEN 30 ELSE 31

\* datetime.strptime(date_str, fmt) for a format of %Y, %m and %d joined by sep;
\* fmt lists the three directives in order; [ok |-> FALSE] stands for ValueError
strptime(date_str, fmt, sep) ==
    LET parts == SplitOn(date_str, sep)
        at(c) == parts[CHOOSE i \in 1..3 : fmt[i] = c]
        year == DigitsVal(at("Y"))
        month == DigitsVal(at("m"))
        day == DigitsVal(at("d"))
    IN  IF /\ Len(parts) = 3
           /\ \A i \in 1..3 : IsDigits(parts[i])
           /\ Len(at("Y")) = 4 /\ year >= 1
           /\ Len(at("m")) <= 2 /\ month \in 1..12
           /\ Len(at("d")) <= 2 /\ day \in 1..DaysInMonth(year, month)
        THEN [ok |-> TRUE, year |-> year, month |-> month, day |-> day]
        ELSE [ok |-> FALSE, year |-> 0, month |-> 0, day |-> 0]

\* f"{n:0{width}d}"
ZeroPad(n, width) ==
    LET s == NatStr(n)
    IN  [i \in 1..(width - Len(s)) |-> "0"] \o s

\* d.strftime('%Y-%m-%d'), also str(d) of a datetime.date
isoformat(d) ==
    ZeroPad(d.year, 4) \o <<"-">> \o ZeroPad(d.month, 2) \o <<"-">> \o ZeroPad(d.day, 2)

\* re.match(r'^\d{4}-\d{2}-\d{2}$', date_str)
IsoDateRe(date_str) ==
    /\ Len(date_str) = 10
    /\ date_str[5] = "-" /\ date_str[8] = "-"
    /\ \A i \in {1, 2, 3, 4, 6, 7, 9, 10} : date_str[i] \in Digits

\* datetime.now().strftime('%Y-%m-%d')
Today == <<"2", "0", "2", "6", "-", "1", "1", "-", "0", "1">>

\* ExperimentContextSchema().load(data): the fields of the schema, unknown keys rejected,
\* date deserialized to a datetime.date, plate_type filled in with '96' when missing;
\* [raised |-> TRUE] stands for marshmallow's ValidationError
ExperimentContextSchema_load(data) ==
    LET has(k) == k \in DOMAIN data
        length(k, min, max) == Len(data[k]) >= min /\ Len(data[k]) <= max
        date == strptime(data.date.value, <<"Y", "m", "d">>, "-")
        valid ==
            /\ DOMAIN data \subseteq
                   {"author", "date", "project", "eln", "objective", "plate_type"}
            /\ has("author") /\ length("author", 1, 100)
            /\ has("date") /\ data.date.kind = "str" /\ date.ok
            /\ has("project") /\ length("project", 1, 200)
            /\ has("eln") /\ length("eln", 1, 50)
            /\ has("objective") => length("objective", 0, 1000)
            /\ has("plate_type") => data.plate_type \in {"24", "48", "96"}
    IN  IF valid
        THEN [raised |-> FALSE,
              value |-> [k \in DOMAIN data \cup {"plate_type"} |->
                            IF k = "date"
                            THEN [kind |-> "date", year |-> date.year,
                                  month |-> date.month, day |-> date.day]
                            ELSE IF has(k) THEN data[k] ELSE "96"]]
        ELSE [raised |-> TRUE, value |-> None]

\* MaterialSchema().load(material): role and source filled in when missing
MaterialSchema_load(material) ==
    LET has(k) == k \in DOMAIN material
        length(k, min, max) == Len(material[k]) >= min /\ Len(material[k]) <= max
        valid ==
            /\ DOMAIN material \subseteq
                   {"name", "alias", "cas", "smiles", "molecular_weight", "barcode",
                    "role", "source", "inventory_location", "supplier"}
            /\ has("name") /\ length("name", 1, 200)
            /\ has("alias") => length("alias", 0, 100)
            /\ has("cas") => length("cas", 0, 50)
            /\ has("smiles") => length("smiles", 0, 500)
            /\ has("molecular_weight") => length("molecular_weight", 0, 20)
            /\ has("barcode") => length("barcode", 0, 100)
            /\ has("role") =>
                   material.role \in {"Reactant", "Target product", "Product", "Solvent",
                                      "Reagent", "Internal standard", ""}
            /\ has("source") =>
                   material.source \in {"inventory_match", "excel_upload", "kit_upload",
                                        "manual", "solvent_database"}
            /\ has("inventory_location") => length("inventory_location", 0, 100)
            /\ has("supplier") => length("supplier", 0, 100)
    IN  IF valid
        THEN [raised |-> FALSE,
              value |-> [k \in DOMAIN material \cup {"role", "source"} |->
                            IF has(k) THEN material[k]
                            ELSE IF k = "role" THEN "" ELSE "manual"]]
        ELSE [raised |-> TRUE, value |-> None]

\* validate_data with strict_mode=False: what the schema loaded, or the data as it
\* came when the schema raised; loaded is the outcome of schema.load(data)
validate_data_loaded_only(loaded, data) ==
    IF loaded.raised THEN EmptyDict ELSE loaded.value

validate_data(loaded, data) ==
    IF loaded.raised THEN data ELSE loaded.value

\* GET /api/experiment/context: the stored context with the defaults, the date
\* normalised, today's date when there is none
experiment_context_get(stored) ==
    LET default(k) == IF k = "date" THEN Str(<< >>) ELSE ""
        context == [k \in DOMAIN stored
                          \cup {"author", "date", "project", "eln", "objective"} |->
                       IF k \in DOMAIN stored THEN stored[k] ELSE default(k)]
        truthy == context.date.kind = "date" \/ context.date.value # << >>
        date_str == IF context.date.kind = "date" THEN isoformat(context.date)
                    ELSE context.date.value
        formats == << <<<<"m", "d", "Y">>, "/">>, <<<<"d", "m", "Y">>, "/">>,
                      <<<<"d", "m", "Y">>, "-">>, <<<<"m", "d", "Y">>, "-">> >>
        parses(i) == strptime(date_str, formats[i][1], formats[i][2]).ok
        parsed_date ==
            LET i == CHOOSE i \in 1..4 : parses(i) /\ \A j \in 1..(i - 1) : ~parses(j)
            IN  strptime(date_str, formats[i][1], formats[i][2])
        fixed ==
            IF ~truthy THEN context.date
            ELSE IF Contains(date_str, <<"G", "M", "T">>)
                    \/ Contains(date_str, <<"U", "T", "C">>)
                 THEN Str(Today)
            ELSE IF IsoDateRe(date_str) THEN context.date
            ELSE IF strptime(date_str, <<"Y", "m", "d">>, "-").ok THEN context.date
            ELSE IF \E i \in 1..4 : parses(i) THEN Str(isoformat(parsed_date))
            ELSE context.date
        still_empty == fixed.kind = "str" /\ fixed.value = << >>
    IN  [context EXCEPT !.date = IF still_empty THEN Str(Today) ELSE fixed]

\* reset_experiment(): the sections it leaves, also the state at import
reset_experiment ==
    [context |-> EmptyDict, materials |-> << >>, procedure |-> << >>, results |-> << >>]

\* POST /api/experiment/context
experiment_context_post(experiment, body) ==
    [experiment EXCEPT
         !.context = validate_data(ExperimentContextSchema_load(body), body)]

\* POST /api/experiment/materials with a list: each material validated on its own
experiment_materials_post(experiment, body) ==
    [experiment EXCEPT
         !.materials = [i \in 1..Len(body) |->
                           validate_data(MaterialSchema_load(body[i]), body[i])]]

\* POST /api/experiment/procedure
experiment_procedure_post_extend(experiment, body) ==
    [experiment EXCEPT !.procedure = experiment.procedure \o body]

experiment_procedure_post(experiment, body) ==
    [experiment EXCEPT !.procedure = body]

\* POST /api/experiment/results
experiment_results_post(experiment, body) ==
    [experiment EXCEPT !.results = body]

\* POST /api/experiment/procedure/update-plate-type: the experiment it leaves and the
\* JSON it answers
update_procedure_plate_type(experiment, data) ==
    LET new_plate_type == IF "plate_type" \in DOMAIN data THEN data.plate_type ELSE "96"
        posted == IF "current_procedure" \in DOMAIN data
                  THEN data.current_procedure ELSE << >>
        valid == valid_procedure(posted, new_plate_type)
    IN  [experiment |->
             [experiment EXCEPT !.context = DictSet(@, "plate_type", new_plate_type),
                                !.procedure = valid],
         json |-> [success |-> TRUE, plate_type |-> new_plate_type,
                   filtered_wells |-> Len(posted) - Len(valid)]]

\* a procedure record with nothing in the well
EmptyWell(well) == [well |-> well, materials |-> << >>]

PlateTypeRequests ==
    { [plate_type |-> "24", current_procedure |-> << EmptyWell(A1), EmptyWell(E7) >>],
      [plate_type |-> "48",
       current_procedure |-> << EmptyWell(<<"F", "8">>), EmptyWell(<<"G", "1">>) >>],
      [plate_type |-> "384",
       current_procedure |-> << EmptyWell(<<"H", "1", "2">>), EmptyWell(<<"A", "1", "3">>) >>],
      [current_procedure |-> << EmptyWell(A1) >>],
      [plate_type |-> "24",
       current_procedure |-> << EmptyWell(<<"A", "0">>), [materials |-> << >>] >>],
      [plate_type |-> "24",
       current_procedure |-> << EmptyWell(<<"1", "1">>), EmptyWell(<<"A", "x">>),
                                EmptyWell(<<"a", "1">>) >>] }

PostedContexts ==
    { EmptyDict,
      [author |-> "Test Author"],
      [author |-> "Ann", date |-> Str(<<"2", "0", "2", "4", "-", "0", "1", "-", "1", "5">>),
       project |-> "P1", eln |-> "ELN-001"],
      [author |-> "Ann", date |-> Str(<<"1", "5", "/", "0", "1", "/", "2", "0", "2", "4">>),
       project |-> "P1", eln |-> "ELN-001"],
      [author |-> "", date |-> Str(<<"b", "a", "d">>), project |-> "P2", eln |-> ""],
      [author |-> "Bob", date |-> Str(<<"b", "a", "d">>), project |-> "P2",
       eln |-> "ELN-002", extra_field |-> "kept"],
      [author |-> "Bob", date |-> Str(<<"1", " ", "G", "M", "T">>), project |-> "P2",
       eln |-> "ELN-002", plate_type |-> "24"] }

PostedMaterialLists ==
    { << >>,
      << [name |-> "NaCl"] >>,
      << [name |-> "NaCl", cas |-> "7647-14-5", role |-> "Reactant", source |-> "manual"] >>,
      << [name |-> "", cas |-> "7647-14-5"] >>,
      << [name |-> "KBr", role |-> "Catalyst"], [name |-> "NaCl", source |-> "kit_upload"] >> }

PostedResults ==
    { << >>,
      << [well |-> A1, conversion_percent |-> "85.5", yield_percent |-> "78.2"] >> }

Request(method, path, body, status, json) ==
    [method |-> method, path |-> path, body |-> body, status |-> status, json |-> json]

InitStore ==
    /\ attempts = Unused
    /\ clock = Unused
    /\ config = Unused
    /\ op = "store"
    /\ current_experiment = reset_experiment
    /\ returned = << >>
    /\ position = Unused
    /\ kit_wells = Unused
    /\ destination_plate = Unused
    /\ mappings = Unused
    /\ content_wells = Unused
    /\ kit_size = Unused
    /\ design = Unused
    /\ current_procedure = Unused
    /\ new_procedure_data = Unused
    /\ heap = Unused
    /\ req = Unused

\* a request is served while the log has room
CanServe == op = "store" /\ Len(returned) < MaxRequests

ContextPOST ==
    /\ CanServe
    /\ \E body \in PostedContexts :
           /\ current_experiment' = experiment_context_post(current_experiment, body)
           /\ returned' = Append(returned,
                  Request("POST", "context", body, 200, [message |-> "Context updated"]))
    /\ PureUnchanged

ContextGET ==
    /\ CanServe
    /\ returned' = Append(returned,
           Request("GET", "context", None, 200,
                   experiment_context_get(current_experiment.context)))
    /\ UNCHANGED current_experiment
    /\ PureUnchanged

MaterialsPOST ==
    /\ CanServe
    /\ \E body \in PostedMaterialLists :
           /\ current_experiment' = experiment_materials_post(current_experiment, body)
           /\ returned' = Append(returned,
                  Request("POST", "materials", body, 200, [message |-> "Materials updated"]))
    /\ PureUnchanged

MaterialsGET ==
    /\ CanServe
    /\ returned' = Append(returned,
           Request("GET", "materials", None, 200, current_experiment.materials))
    /\ UNCHANGED current_experiment
    /\ PureUnchanged

ProcedurePOST ==
    /\ CanServe
    /\ \E body \in PostedProcedures :
           /\ current_experiment' = experiment_procedure_post(current_experiment, body)
           /\ returned' = Append(returned,
                  Request("POST", "procedure", body, 200, [message |-> "Procedure updated"]))
    /\ PureUnchanged

ProcedureGET ==
    /\ CanServe
    /\ returned' = Append(returned,
           Request("GET", "procedure", None, 200, current_experiment.procedure))
    /\ UNCHANGED current_experiment
    /\ PureUnchanged

ResultsPOST ==
    /\ CanServe
    /\ \E body \in PostedResults :
           /\ current_experiment' = experiment_results_post(current_experiment, body)
           /\ returned' = Append(returned,
                  Request("POST", "results", body, 200, [message |-> "Results updated"]))
    /\ PureUnchanged

ResultsGET ==
    /\ CanServe
    /\ returned' = Append(returned,
           Request("GET", "results", None, 200, current_experiment.results))
    /\ UNCHANGED current_experiment
    /\ PureUnchanged

UpdatePlateTypePOST ==
    /\ CanServe
    /\ \E data \in PlateTypeRequests :
           LET done == update_procedure_plate_type(current_experiment, data)
           IN  /\ current_experiment' = done.experiment
               /\ returned' = Append(returned,
                      Request("POST", "procedure/update-plate-type", data, 200, done.json))
    /\ PureUnchanged

ResetPOST ==
    /\ CanServe
    /\ current_experiment' = reset_experiment
    /\ returned' = Append(returned,
           Request("POST", "reset", None, 200, [message |-> "Experiment reset"]))
    /\ PureUnchanged

NextStore ==
    \/ ContextPOST \/ ContextGET
    \/ MaterialsPOST \/ MaterialsGET
    \/ ProcedurePOST \/ ProcedureGET
    \/ ResultsPOST \/ ResultsGET
    \/ UpdatePlateTypePOST
    \/ ResetPOST

SpecStore == InitStore /\ [][NextStore]_vars

\* the request served right after request i, when there is one
Followed(i, method, path) ==
    /\ i < Len(returned)
    /\ returned[i + 1].method = method
    /\ returned[i + 1].path = path

IsRequest(i, method, path) ==
    returned[i].method = method /\ returned[i].path = path

\* C21: after a reset, whatever updates preceded it, the experiment is back in its
\* initial state: GET context returns an empty object and the materials, procedure and
\* results lists are empty.
C21_ResetRestoresInitialState ==
    op = "store" =>
        \A i \in 1..Len(returned) :
            IsRequest(i, "POST", "reset") =>
                /\ Followed(i, "GET", "context") => returned[i + 1].json = EmptyDict
                /\ Followed(i, "GET", "materials") => returned[i + 1].json = << >>
                /\ Followed(i, "GET", "procedure") => returned[i + 1].json = << >>
                /\ Followed(i, "GET", "results") => returned[i + 1].json = << >>
                /\ i = Len(returned) =>
                       /\ current_experiment.materials = << >>
                       /\ current_experiment.procedure = << >>
                       /\ current_experiment.results = << >>

ListSections == {"materials", "procedure", "results"}

\* request i is a POST to a list section and the next request reads that section back
PostThenGet(i) ==
    /\ returned[i].method = "POST"
    /\ returned[i].path \in ListSections
    /\ Followed(i, "GET", returned[i].path)

\* requests i, i + 1, i + 2 are a GET of one section, a POST to a list section other
\* than it, and a GET of the first section again
GetPostGet(i) ==
    /\ i + 2 <= Len(returned)
    /\ returned[i].method = "GET"
    /\ returned[i + 1].method = "POST"
    /\ returned[i + 1].path \in ListSections \ {returned[i].path}
    /\ returned[i + 2].method = "GET"
    /\ returned[i + 2].path = returned[i].path

OtherSectionsUnchanged ==
    \A i \in 1..Len(returned) : GetPostGet(i) => returned[i + 2].json = returned[i].json

WithDefaults(stored, posted) ==
    /\ DOMAIN posted \subseteq DOMAIN stored
    /\ DOMAIN stored \subseteq DOMAIN posted \cup {"role", "source"}
    /\ \A k \in DOMAIN posted : stored[k] = posted[k]
    /\ \A k \in DOMAIN stored \ DOMAIN posted :
           stored[k] = IF k = "role" THEN "" ELSE "manual"

InvalidContextPosted(i) ==
    /\ IsRequest(i, "POST", "context")
    /\ ExperimentContextSchema_load(returned[i].body).raised

\* C23: validation of the context is warn-only: a POST whose data fails the schema
\* still answers 200, the posted data is stored unchanged, and a following GET returns
\* the posted author, project and eln.
C23_ContextValidationWarnOnly ==
    op = "store" =>
        \A i \in 1..Len(returned) :
            InvalidContextPosted(i) =>
                /\ returned[i].status = 200
                /\ i = Len(returned) => current_experiment.context = returned[i].body
                /\ Followed(i, "GET", "context") =>
                       \A k \in {"author", "project", "eln"} \cap DOMAIN returned[i].body :
                           returned[i + 1].json[k] = returned[i].body[k]

\* the context of test_validation_preserves_original_data, posted over a valid one and
\* read back
C23_Witness ==
    /\ op = "store"
    /\ Len(returned) = 3
    /\ IsRequest(1, "POST", "context")
    /\ ~ExperimentContextSchema_load(returned[1].body).raised
    /\ InvalidContextPosted(2)
    /\ "extra_field" \in DOMAIN returned[2].body
    /\ IsRequest(3, "GET", "context")
    /\ returned[3].json.author = "Bob"
    /\ returned[3].json.project = "P2"
    /\ returned[3].json.eln = "ELN-002"
    /\ current_experiment.context = returned[2].body

(***************************************************************************)
(* The rate limiter                                                        *)
(*                                                                         *)
(* attempts maps a limit type and an IP to its deque of timestamps.  Each  *)
(* request thread runs is_rate_limited without a lock, so a call is a      *)
(* sequence of steps between which other calls run; req[t] holds the       *)
(* locals of the call of thread t and returned is the log of the calls     *)
(* that have ended: [ip, limit_type, now, outcome].                        *)
(***************************************************************************)

MaxTime == 3

MaxLimiterCalls == 3

IPs == {"10.0.0.1", "10.0.0.2"}

LimitTypes == {"api", "upload"}

\* the limits an environment can configure (config.py reads them from os.environ)
Configs ==
    [API_RATE_WINDOW : {1, 2}, API_RATE_LIMIT : {1, 2},
     UPLOAD_RATE_WINDOW : {1}, UPLOAD_RATE_LIMIT : {1}]

\* window and max_requests of a limit type
window(limit_type) ==
    IF limit_type = "upload" THEN config.UPLOAD_RATE_WINDOW ELSE config.API_RATE_WINDOW

max_requests(limit_type) ==
    IF limit_type = "upload" THEN config.UPLOAD_RATE_LIMIT ELSE config.API_RATE_LIMIT

Idle == [pc |-> "idle", ip |-> None, limit_type |-> None, now |-> 0]

InitLimit ==
    /\ op = "limit"
    /\ attempts = [k \in LimitTypes \X IPs |-> << >>]
    /\ clock = 0
    /\ config \in Configs
    /\ req = [t \in Threads |-> Idle]
    /\ returned = << >>
    /\ position = Unused
    /\ kit_wells = Unused
    /\ destination_plate = Unused
    /\ mappings = Unused
    /\ content_wells = Unused
    /\ kit_size = Unused
    /\ design = Unused
    /\ current_procedure = Unused
    /\ new_procedure_data = Unused
    /\ current_experiment = Unused
    /\ heap = Unused

LimitUnchanged ==
    UNCHANGED <<op, config, position, kit_wells, destination_plate, mappings, content_wells,
                kit_size, design, current_procedure, new_procedure_data,
                current_experiment, heap>>

\* the deque of the call of thread t
Key(t) == <<req[t].limit_type, req[t].ip>>

\* the call of thread t ends with this outcome
Return(t, outcome) ==
    /\ req' = [req EXCEPT ![t] = Idle]
    /\ returned' = Append(returned, [ip |-> req[t].ip, limit_type |-> req[t].limit_type,
                                     now |-> req[t].now, outcome |-> outcome])

\* time passes
Tick ==
    /\ op = "limit"
    /\ clock < MaxTime
    /\ clock' = clock + 1
    /\ UNCHANGED <<attempts, req, returned>>
    /\ LimitUnchanged

\* is_rate_limited(ip, limit_type): now = time.time(); attempts = ..._attempts[ip]
ReadClock(t) ==
    /\ op = "limit"
    /\ req[t].pc = "idle"
    /\ Len(returned) + Cardinality({u \in Threads : req[u].pc # "idle"}) < MaxLimiterCalls
    /\ \E ip \in IPs, limit_type \in LimitTypes :
           req' = [req EXCEPT ![t] = [pc |-> "purge", ip |-> ip,
                                      limit_type |-> limit_type, now |-> clock]]
    /\ UNCHANGED <<attempts, clock, returned>>
    /\ LimitUnchanged

\* while attempts and attempts[0] < now - window:
PurgeTest(t) ==
    /\ op = "limit"
    /\ req[t].pc = "purge"
    /\ LET old == /\ Len(attempts[Key(t)]) > 0
                  /\ attempts[Key(t)][1] < req[t].now - window(req[t].limit_type)
       IN  req' = [req EXCEPT ![t].pc = IF old THEN "popleft" ELSE "check"]
    /\ UNCHANGED <<attempts, clock, returned>>
    /\ LimitUnchanged

\* attempts.popleft(): IndexError when the deque is empty by now
PopLeft(t) ==
    /\ op = "limit"
    /\ req[t].pc = "popleft"
    /\ IF Len(attempts[Key(t)]) = 0
       THEN /\ Return(t, "IndexError")
            /\ UNCHANGED attempts
       ELSE /\ attempts' = [attempts EXCEPT ![Key(t)] = Tail(@)]
            /\ req' = [req EXCEPT ![t].pc = "purge"]
            /\ UNCHANGED returned
    /\ UNCHANGED clock
    /\ LimitUnchanged

\* if len(attempts) >= max_requests: return True, ...
CheckLimit(t) ==
    /\ op = "limit"
    /\ req[t].pc = "check"
    /\ IF Len(attempts[Key(t)]) >= max_requests(req[t].limit_type)
       THEN Return(t, "limited")
       ELSE /\ req' = [req EXCEPT ![t].pc = "append"]
            /\ UNCHANGED returned
    /\ UNCHANGED <<attempts, clock>>
    /\ LimitUnchanged

\* attempts.append(now); return False, ""
RecordAttempt(t) ==
    /\ op = "limit"
    /\ req[t].pc = "append"
    /\ attempts' = [attempts EXCEPT ![Key(t)] = Append(@, req[t].now)]
    /\ Return(t, "admitted")
    /\ UNCHANGED clock
    /\ LimitUnchanged

NextLimit ==
    \/ Tick
    \/ \E t \in Threads :
           \/ ReadClock(t)
           \/ PurgeTest(t)
           \/ PopLeft(t)
           \/ CheckLimit(t)
           \/ RecordAttempt(t)

SpecLimit == InitLimit /\ [][NextLimit]_vars

\* the calls of one client and limit type that were admitted with a timestamp in
\* the closed interval [from, from + length]
AdmittedWithin(ip, limit_type, from, length) ==
    {i \in 1..Len(returned) :
        /\ returned[i].ip = ip
        /\ returned[i].limit_type = limit_type
        /\ returned[i].outcome = "admitted"
        /\ returned[i].now >= from
        /\ returned[i].now <= from + length}

\* C25: for each client IP and each limit type, is_rate_limited admits at most
\* max_requests requests in any time interval of window seconds, whatever the sequence
\* and timing of the requests.
C25_AtMostMaxPerWindow ==
    op = "limit" =>
        \A ip \in IPs, limit_type \in LimitTypes, from \in 0..MaxTime :
            Cardinality(AdmittedWithin(ip, limit_type, from, window(limit_type)))
                <= max_requests(limit_type)

\* C30: a request rejected by the rate limiter is not recorded as an attempt, so a
\* limited client is admitted again as soon as its oldest recorded attempt is more
\* than window seconds old, even if it kept sending requests while it was limited:
\* the deques hold timestamps of admitted calls only, a call is rejected only while
\* the oldest recorded attempt of its deque is within the window, and no call ends
\* otherwise than admitted or rejected.
C30_RejectedNotRecorded ==
    op = "limit" =>
        /\ \A k \in LimitTypes \X IPs :
               Len(attempts[k])
                   <= Cardinality({i \in 1..Len(returned) :
                                      /\ <<returned[i].limit_type, returned[i].ip>> = k
                                      /\ returned[i].outcome = "admitted"})
        /\ \A t \in Threads :
               (/\ req[t].pc = "check"
                /\ Len(attempts[Key(t)]) >= max_requests(req[t].limit_type))
                   => attempts[Key(t)][1] >= req[t].now - window(req[t].limit_type)
        /\ \A i \in 1..Len(returned) : returned[i].outcome \in {"admitted", "limited"}

\* the row and the column of a well lie within a plate
WithinPlate(well, plate) ==
    /\ Len(well) >= 2
    /\ Ord(well[1]) \in Ord("A")..(Ord("A") + PlateRows(plate) - 1)
    /\ IsDigits(Tail(well))
    /\ DigitsVal(Tail(well)) \in 1..PlateCols(plate)

\* C26: after update-plate-type with plate type P every record of the stored procedure
\* has a well whose row and column lie within plate P (24: A-D x 1-6, 48: A-F x 1-8,
\* 96 or unrecognized: A-H x 1-12), and the reported filtered_wells is the number of
\* supplied records that were dropped.
C26_StoredWellsFitPlate ==
    (op = "store" /\ returned # << >>) =>
        LET last == returned[Len(returned)]
            stored == current_experiment.procedure
        IN  (last.path = "procedure/update-plate-type") =>
                /\ \A i \in 1..Len(stored) :
                       /\ "well" \in DOMAIN stored[i]
                       /\ WithinPlate(stored[i].well, last.json.plate_type)
                /\ last.json.filtered_wells
                       = Len(last.body.current_procedure) - Len(stored)

====
